---- MODULE Spec2Model ----
(***************************************************************************)
(* Model of termpdf-core (src/termpdf-core/src/lib.rs): the Session, its   *)
(* DocumentInstances, the jump history, the render cache and the search    *)
(* engine; and of the EventMapper of termpdf-tty                            *)
(* (src/termpdf-tty/src/lib.rs) in its Normal mode.                        *)
(*                                                                         *)
(* f32 values (scale, viewport offsets, deltas) are integers counting      *)
(* multiples of f32::EPSILON = 2^-23.  Every value the model produces is   *)
(* exactly representable in f32 and every sum or product it forms is       *)
(* exact, so the arithmetic below is the arithmetic of the program.        *)
(* Option<T> is a sequence of length 0 (None) or 1 (Some).  Indices and    *)
(* pages are 0-based as in the source; TLA+ sequences are 1-based, so       *)
(* element i of a Vec v is v[i + 1].                                       *)
(***************************************************************************)
EXTENDS Integers, Sequences, FiniteSets

VARIABLES documents, active, events, cmd, result, jump_origin, trace, cache_log,
          mapper, searcher

vars ==
  <<documents, active, events, cmd, result, jump_origin, trace, cache_log, mapper,
    searcher>>

\* ------------------------------------------------------------------------
\* Program constants
\* ------------------------------------------------------------------------
Eps == 1
One == 8388608
MinScale == 2097152
MaxScale == 33554432
JUMP_HISTORY_CAPACITY == 128
CACHE_CAPACITY == 10
TestPageCount == 100
LinkPages == 3
\* The threshold 0.015 of build_line_map lies between 125829 and 125830
\* multiples of 2^-23: a difference of centers exceeds it exactly when it
\* exceeds 125829 multiples.
LineThreshold == 125829

\* ------------------------------------------------------------------------
\* Bounds of the model
\* ------------------------------------------------------------------------
NavPages == 3
MaxHist == 1
MaxEvents == 1
MaxSteps == 8
MaxSearchSteps == 5
SearchPages == 10
CachePages == 6
CacheRange == 5
CacheMoves == 1
MaxAdvanceSteps == 4
RangePages == 3
OpenPages == 3
MaxOpenSteps == 3
MaxLinkSteps == 4
MaxSelectSteps == 4
MarkPages == 4
MaxMarkSteps == 4
MaxSessionSteps == 3
HistExtra == 2
MaxKeySteps == 4
MaxVisualSteps == 4
MaxLineSteps == 4
USIZE_BITS == 12
MaxCountSteps == 6
CountPages == 3
MaxCloseDocs == 3
MaxCloseSteps == 5
ClosePages == 2
ContextPages == 2
MaxContextSteps == 6

\* usize::MAX of a machine word of USIZE_BITS bits.
UsizeMax == 2 ^ USIZE_BITS - 1

\* ------------------------------------------------------------------------
\* Helpers
\* ------------------------------------------------------------------------
None == <<>>

Some(x) == <<x>>

IsSome(o) == Len(o) = 1

Unwrap(o) == o[1]

\* The value of Body for the value of v, which is computed once.
Bind(v, Body(_)) == CHOOSE r \in {Body(x) : x \in {v}} : TRUE

Min(a, b) == IF a <= b THEN a ELSE b

Max(a, b) == IF a >= b THEN a ELSE b

Abs(x) == IF x < 0 THEN -x ELSE x

Clamp(x, lo, hi) == IF x < lo THEN lo ELSE IF x > hi THEN hi ELSE x

SaturatingSub(a, b) == IF a >= b THEN a - b ELSE 0

AbsDiff(a, b) == IF a >= b THEN a - b ELSE b - a

Last(s) == s[Len(s)]

Front(s) == SubSeq(s, 1, Len(s) - 1)

\* ------------------------------------------------------------------------
\* ViewportOffset
\* ------------------------------------------------------------------------
ViewportDefault == [x |-> 0, y |-> 0]

ViewportReset(v) == [x |-> 0, y |-> 0]

ViewportClamp(v) == [x |-> Clamp(v.x, 0, One), y |-> Clamp(v.y, 0, One)]

AdjustAxis(cur, delta) ==
  IF Abs(delta) > Eps
  THEN LET next == Clamp(cur + delta, 0, One)
       IN IF Abs(next - cur) > Eps THEN next ELSE cur
  ELSE cur

ViewportAdjust(v, delta_x, delta_y) ==
  LET nx == AdjustAxis(v.x, delta_x)
      ny == AdjustAxis(v.y, delta_y)
  IN [viewport |-> [x |-> nx, y |-> ny], changed |-> (nx /= v.x \/ ny /= v.y)]

\* ------------------------------------------------------------------------
\* PersistedDocumentState
\* ------------------------------------------------------------------------
DefaultState ==
  [current_page |-> 0, scale |-> One, dark_mode |-> FALSE,
   marks |-> <<>>, named_marks |-> <<>>, viewport |-> ViewportDefault]

\* ------------------------------------------------------------------------
\* JumpHistory
\* ------------------------------------------------------------------------
JumpHistoryDefault ==
  [back_stack |-> <<>>, forward_stack |-> <<>>, last_known |-> None]

\* Variant: on overflow the newest entries are the ones dropped.
DropNewest(stack) ==
  IF Len(stack) > JUMP_HISTORY_CAPACITY
  THEN SubSeq(stack, 1, JUMP_HISTORY_CAPACITY)
  ELSE stack

DropOverflow(stack) ==
  IF Len(stack) > JUMP_HISTORY_CAPACITY
  THEN SubSeq(stack, Len(stack) - JUMP_HISTORY_CAPACITY + 1, Len(stack))
  ELSE stack

push_stack(stack, position) ==
  IF Len(stack) > 0 /\ Last(stack) = position
  THEN stack
  ELSE DropOverflow(Append(stack, position))

push_back(jh, position) ==
  [jh EXCEPT !.back_stack = push_stack(jh.back_stack, position)]

push_forward(jh, position) ==
  [jh EXCEPT !.forward_stack = push_stack(jh.forward_stack, position)]

record_initial(jh, position) == [jh EXCEPT !.last_known = Some(position)]

\* Variant: the origin is not pushed onto the back-stack.
record_navigation_no_push(jh, from, to) ==
  IF from = to
  THEN jh
  ELSE [jh EXCEPT !.forward_stack = <<>>, !.last_known = Some(to)]

\* Variant: the forward-stack survives a recorded navigation.
record_navigation_keep_forward(jh, from, to) ==
  IF from = to
  THEN jh
  ELSE [push_back(jh, from) EXCEPT !.last_known = Some(to)]

record_navigation(jh, from, to) ==
  IF from = to
  THEN jh
  ELSE [push_back(jh, from) EXCEPT !.forward_stack = <<>>,
                                   !.last_known = Some(to)]

record_current(jh, position) == [jh EXCEPT !.last_known = Some(position)]

RECURSIVE jump_backward(_, _)
jump_backward(jh, current) ==
  IF Len(jh.back_stack) = 0
  THEN [jh |-> jh, target |-> None]
  ELSE LET target == Last(jh.back_stack)
           popped == [jh EXCEPT !.back_stack = Front(jh.back_stack)]
       IN IF target = current
          THEN jump_backward(popped, current)
          ELSE [jh |-> [push_forward(popped, current)
                          EXCEPT !.last_known = Some(target)],
                target |-> Some(target)]

RECURSIVE jump_forward(_, _)
jump_forward(jh, current) ==
  IF Len(jh.forward_stack) = 0
  THEN [jh |-> jh, target |-> None]
  ELSE LET target == Last(jh.forward_stack)
           popped == [jh EXCEPT !.forward_stack = Front(jh.forward_stack)]
       IN IF target = current
          THEN jump_forward(popped, current)
          ELSE [jh |-> [push_back(popped, current)
                          EXCEPT !.last_known = Some(target)],
                target |-> Some(target)]

\* ------------------------------------------------------------------------
\* DocumentInstance
\* ------------------------------------------------------------------------
current_position(doc) ==
  [page |-> doc.state.current_page, scale |-> doc.state.scale,
   viewport |-> doc.state.viewport]

DocumentInstanceNew(info, backend, state) ==
  LET fresh == [info |-> info, backend |-> backend, state |-> state,
                render_cache |-> {}, jump_history |-> JumpHistoryDefault,
                text_cache |-> {}, search_state |-> None,
                link_state |-> None, selection_state |-> None,
                visual_cursor |-> None, last_selection |-> None,
                visual_column_hint |-> One \div 2]
  IN [fresh EXCEPT !.jump_history =
        record_initial(JumpHistoryDefault, current_position(fresh))]

\* Variant: the jump is not recorded, only the current position is synced.
record_jump_from_sync_only(doc, previous) ==
  [doc EXCEPT !.jump_history =
     record_current(doc.jump_history, current_position(doc))]

record_jump_from(doc, previous) ==
  [doc EXCEPT !.jump_history =
     record_navigation(doc.jump_history, previous, current_position(doc))]

\* Variant: the synced position is also pushed onto the back-stack.
sync_jump_position_pushing(doc) ==
  [doc EXCEPT !.jump_history =
     push_back(record_current(doc.jump_history, current_position(doc)),
               current_position(doc))]

sync_jump_position(doc) ==
  [doc EXCEPT !.jump_history =
     record_current(doc.jump_history, current_position(doc))]

LastPage(doc) == SaturatingSub(doc.info.page_count, 1)

apply_document_position(doc, position) ==
  LET target_page == Min(position.page, LastPage(doc))
      page_changed == target_page /= doc.state.current_page
      target_scale == Clamp(position.scale, MinScale, MaxScale)
      scale_changed == Abs(doc.state.scale - target_scale) > Eps
      new_scale == IF scale_changed THEN target_scale ELSE doc.state.scale
      next_viewport == ViewportClamp(position.viewport)
      viewport_changed ==
        \/ Abs(doc.state.viewport.x - next_viewport.x) > Eps
        \/ Abs(doc.state.viewport.y - next_viewport.y) > Eps
      changed == page_changed \/ scale_changed \/ viewport_changed
      set_viewport == IF changed THEN next_viewport ELSE doc.state.viewport
      final_viewport == IF new_scale <= One + Eps
                        THEN ViewportReset(set_viewport)
                        ELSE ViewportClamp(set_viewport)
      moved == [doc EXCEPT !.state.current_page = target_page,
                           !.state.scale = new_scale,
                           !.state.viewport = final_viewport]
  IN [doc |-> sync_jump_position(moved), changed |-> changed]

pop_jump_backward(doc) ==
  LET r == jump_backward(doc.jump_history, current_position(doc))
  IN [doc |-> [doc EXCEPT !.jump_history = r.jh], target |-> r.target]

pop_jump_forward(doc) ==
  LET r == jump_forward(doc.jump_history, current_position(doc))
  IN [doc |-> [doc EXCEPT !.jump_history = r.jh], target |-> r.target]

\* ------------------------------------------------------------------------
\* Strings: sequences of one-character strings
\* ------------------------------------------------------------------------
LowerChar(ch) == IF ch = "K" THEN "k" ELSE IF ch = "X" THEN "x" ELSE ch

ToLowercase(str) == [i \in 1..Len(str) |-> LowerChar(str[i])]

IsWhitespace(ch) == ch = " "

RECURSIVE TrimStart(_)
TrimStart(str) ==
  IF Len(str) > 0 /\ IsWhitespace(str[1]) THEN TrimStart(Tail(str)) ELSE str

RECURSIVE TrimEnd(_)
TrimEnd(str) ==
  IF Len(str) > 0 /\ IsWhitespace(Last(str)) THEN TrimEnd(Front(str)) ELSE str

Trim(str) == TrimEnd(TrimStart(str))

StartsWithAt(str, pat, at) ==
  /\ at + Len(pat) <= Len(str)
  /\ \A i \in 1..Len(pat) : str[at + i] = pat[i]

\* str[offset..].find(pat): the byte position, relative to offset, of the
\* first occurrence of pat at or after offset.
Find(str, pat, offset) ==
  LET hits == {p \in 0..(Len(str) - offset) : StartsWithAt(str, pat, offset + p)}
  IN IF hits = {} THEN None
     ELSE Some(CHOOSE p \in hits : \A q \in hits : p <= q)

\* ------------------------------------------------------------------------
\* NormalizedRect
\* ------------------------------------------------------------------------
Rect(l, t, r, b) == [left |-> l, top |-> t, right |-> r, bottom |-> b]

RectClamp(rect) ==
  [left |-> Clamp(rect.left, 0, One), top |-> Clamp(rect.top, 0, One),
   right |-> Clamp(rect.right, 0, One), bottom |-> Clamp(rect.bottom, 0, One)]

RectIsValid(rect) == rect.right > rect.left /\ rect.bottom > rect.top

RECURSIVE FilterValid(_)
FilterValid(rects) ==
  IF Len(rects) = 0 THEN <<>>
  ELSE LET head == RectClamp(rects[1])
       IN IF RectIsValid(head)
          THEN <<head>> \o FilterValid(Tail(rects))
          ELSE FilterValid(Tail(rects))

\* ------------------------------------------------------------------------
\* DocumentBackend (the collaborator): what its calls return
\* ------------------------------------------------------------------------
Ok(v) == [ok |-> TRUE, val |-> v]

Err == [ok |-> FALSE, val |-> <<>>]

\* search_page: the rectangle sets of the hits of `query` on the page.  The
\* backend matches case-insensitively on its keyword, as the FakeBackend of
\* the tests does.
search_page(backend, page, query) ==
  IF ~backend.search[page + 1].ok THEN Err
  ELSE IF Len(Trim(query)) = 0 THEN Ok(<<>>)
  ELSE IF ToLowercase(query) = backend.keyword THEN backend.search[page + 1]
  ELSE Ok(<<>>)

page_text(backend, page) == backend.text[page + 1]

\* ------------------------------------------------------------------------
\* Page-text cache and DocumentSearchContext
\* ------------------------------------------------------------------------
CachedText(cache, page) == {e \in cache : e.page = page}

\* Variant: the text of no page can be loaded.
load_cached_page_text_failing(page, info, backend, cache) ==
  [res |-> Err, cache |-> cache, called |-> FALSE, error |-> "backend"]

\* `called` tells whether backend.page_text was called, `error` which error
\* was returned.
load_cached_page_text(page, info, backend, cache) ==
  IF page >= info.page_count
  THEN [res |-> Err, cache |-> cache, called |-> FALSE, error |-> "out of range"]
  ELSE IF CachedText(cache, page) /= {}
  THEN [res |-> Ok((CHOOSE e \in CachedText(cache, page) : TRUE).text),
        cache |-> cache, called |-> FALSE, error |-> "none"]
  ELSE LET loaded == page_text(backend, page)
       IN IF loaded.ok
          THEN [res |-> loaded,
                cache |-> cache \cup {[page |-> page, text |-> loaded.val]},
                called |-> TRUE, error |-> "none"]
          ELSE [res |-> Err, cache |-> cache, called |-> TRUE,
                error |-> "backend"]

search_context(doc) ==
  [info |-> doc.info, backend |-> doc.backend, text_cache |-> doc.text_cache]

SearchMatch(page, rects) == [page |-> page, rects |-> rects]

\* The fallback scan of one page: one geometry-less match per occurrence,
\* the offset advancing by `step` past each occurrence.
RECURSIVE ScanText(_, _, _, _, _)
ScanText(lower, query_lower, step, page, offset) ==
  IF offset < Len(lower)
  THEN LET pos == Find(lower, query_lower, offset)
       IN IF IsSome(pos)
          THEN LET next == offset + Unwrap(pos) + step
               IN <<SearchMatch(page, <<>>)>> \o
                  (IF next <= offset THEN <<>>
                   ELSE ScanText(lower, query_lower, step, page, next))
          ELSE <<>>
  ELSE <<>>

RectSetsToMatches(page, rect_sets) ==
  [i \in 1..Len(rect_sets) |-> SearchMatch(page, FilterValid(rect_sets[i]))]

RECURSIVE BuildFromPage(_, _, _, _)
BuildFromPage(ctx, query, page, cache) ==
  IF page >= ctx.info.page_count
  THEN [matches |-> <<>>, cache |-> cache]
  ELSE LET found == search_page(ctx.backend, page, query)
           page_matches == IF found.ok THEN found.val ELSE <<>>
           query_lower == ToLowercase(query)
           step == Max(Len(query_lower), 1)
       IN IF Len(page_matches) > 0
          THEN LET rest == BuildFromPage(ctx, query, page + 1, cache)
               IN [matches |-> RectSetsToMatches(page, page_matches) \o rest.matches,
                   cache |-> rest.cache]
          ELSE LET loaded == load_cached_page_text(page, ctx.info, ctx.backend, cache)
                   here == IF loaded.res.ok /\ Len(loaded.res.val.text) > 0
                           THEN ScanText(ToLowercase(loaded.res.val.text),
                                         query_lower, step, page, 0)
                           ELSE <<>>
                   rest == BuildFromPage(ctx, query, page + 1, loaded.cache)
               IN [matches |-> here \o rest.matches, cache |-> rest.cache]

build_search_matches(ctx, query) ==
  IF Len(query) = 0
  THEN [matches |-> <<>>, cache |-> ctx.text_cache]
  ELSE BuildFromPage(ctx, query, 0, ctx.text_cache)

\* ------------------------------------------------------------------------
\* Search engine of a DocumentInstance
\* ------------------------------------------------------------------------
apply_search_index(doc, index) ==
  IF ~IsSome(doc.search_state)
  THEN [doc |-> doc, changed |-> FALSE]
  ELSE LET state == Unwrap(doc.search_state)
       IN IF Len(state.matches) = 0 \/ index >= Len(state.matches)
          THEN [doc |-> [doc EXCEPT !.search_state =
                           Some([state EXCEPT !.current_index = None])],
                changed |-> FALSE]
          ELSE LET target_page == Min(state.matches[index + 1].page, LastPage(doc))
                   previous == current_position(doc)
                   indexed == [doc EXCEPT !.search_state =
                                 Some([state EXCEPT !.current_index = Some(index)])]
                   moved == [indexed EXCEPT
                               !.state.current_page = target_page,
                               !.state.viewport = ViewportReset(doc.state.viewport)]
               IN IF target_page /= doc.state.current_page
                  THEN [doc |-> sync_jump_position(record_jump_from(moved, previous)),
                        changed |-> TRUE]
                  ELSE [doc |-> sync_jump_position(indexed), changed |-> FALSE]

\* Variant: only matches on pages after start_page qualify.
FirstAfter(matches, start_page) ==
  LET hits == {i \in 0..(Len(matches) - 1) : matches[i + 1].page > start_page}
  IN IF hits = {} THEN None
     ELSE Some(CHOOSE i \in hits : \A j \in hits : i <= j)

FirstAtOrAfter(matches, start_page) ==
  LET hits == {i \in 0..(Len(matches) - 1) : matches[i + 1].page >= start_page}
  IN IF hits = {} THEN None
     ELSE Some(CHOOSE i \in hits : \A j \in hits : i <= j)

UnwrapOr(o, default) == IF IsSome(o) THEN Unwrap(o) ELSE default

apply_search_results(doc, query, matches, start_page) ==
  IF Len(query) = 0
  THEN [doc |-> sync_jump_position([doc EXCEPT !.search_state = None]),
        changed |-> FALSE]
  ELSE LET start == Min(start_page, LastPage(doc))
           next_index == IF Len(matches) = 0 THEN None
                         ELSE Some(UnwrapOr(FirstAtOrAfter(matches, start), 0))
           searched == [doc EXCEPT !.search_state =
                          Some([query |-> query, matches |-> matches,
                                current_index |-> next_index])]
       IN IF IsSome(next_index)
          THEN apply_search_index(searched, Unwrap(next_index))
          ELSE [doc |-> sync_jump_position(searched), changed |-> FALSE]

perform_search(doc, query) ==
  LET trimmed == Trim(query)
      built == build_search_matches(search_context(doc), trimmed)
  IN IF Len(trimmed) = 0
     THEN [doc |-> sync_jump_position([doc EXCEPT !.search_state = None]),
           changed |-> FALSE]
     ELSE apply_search_results([doc EXCEPT !.text_cache = built.cache],
                               trimmed, built.matches, doc.state.current_page)

\* Option<bool> as "None", "true", "false".
BoolResult(b) == IF b THEN "true" ELSE "false"

\* Variant: a search without a match counts as no search.
advance_search_none_without_match(doc, forward, count) ==
  IF count = 0 THEN [doc |-> doc, ret |-> "false"]
  ELSE IF ~IsSome(doc.search_state) THEN [doc |-> doc, ret |-> "None"]
  ELSE IF Len(Unwrap(doc.search_state).matches) = 0
  THEN [doc |-> doc, ret |-> "None"]
  ELSE LET state == Unwrap(doc.search_state)
           total == Len(state.matches)
           current == UnwrapOr(state.current_index, 0)
           steps == count % total
           target == IF steps = 0 THEN current
                     ELSE IF forward THEN (current + steps) % total
                     ELSE (current + total - steps) % total
           applied == apply_search_index(doc, target)
       IN [doc |-> applied.doc, ret |-> BoolResult(applied.changed)]

advance_search(doc, forward, count) ==
  IF count = 0 THEN [doc |-> doc, ret |-> "false"]
  ELSE IF ~IsSome(doc.search_state) THEN [doc |-> doc, ret |-> "None"]
  ELSE LET state == Unwrap(doc.search_state)
           total == Len(state.matches)
           current == UnwrapOr(state.current_index, 0)
       IN IF total = 0 THEN [doc |-> doc, ret |-> "false"]
          ELSE LET steps == count % total
                   target == IF steps = 0 THEN current
                             ELSE IF forward THEN (current + steps) % total
                             ELSE (current + total - steps) % total
                   applied == apply_search_index(doc, target)
               IN [doc |-> applied.doc, ret |-> BoolResult(applied.changed)]

\* Variant: one match more than asked is stepped over.
next_search_match_skipping(doc, count) == advance_search(doc, TRUE, count + 1)

next_search_match(doc, count) == advance_search(doc, TRUE, count)

\* Variant: the direction is ignored.
previous_search_match_forward(doc, count) == advance_search(doc, TRUE, count)

previous_search_match(doc, count) == advance_search(doc, FALSE, count)

search_summary(doc) ==
  IF IsSome(doc.search_state)
  THEN Some([query |-> Unwrap(doc.search_state).query,
             total |-> Len(Unwrap(doc.search_state).matches),
             current_index |-> Unwrap(doc.search_state).current_index])
  ELSE None

\* ------------------------------------------------------------------------
\* Link mode of a DocumentInstance
\* ------------------------------------------------------------------------
\* LinkAction
GoTo(page) == [variant |-> "GoTo", page |-> page]

Uri(uri) == [variant |-> "Uri", uri |-> uri]

Unsupported == [variant |-> "Unsupported"]

LinkDefinition(rects, action) == [rects |-> rects, action |-> action]

LinkEntry(page, rects, action) ==
  [page |-> page, rects |-> rects, action |-> action]

\* page_links: the trait's default finds no link.
page_links(backend, page) ==
  IF "links" \in DOMAIN backend THEN backend.links[page + 1] ELSE Ok(<<>>)

\* The entries of one page: rectangles clamped and filtered, definitions
\* left without a rectangle dropped.
RECURSIVE EntriesOfPage(_, _)
EntriesOfPage(page, definitions) ==
  IF Len(definitions) = 0 THEN <<>>
  ELSE LET rects == FilterValid(definitions[1].rects)
           rest == EntriesOfPage(page, Tail(definitions))
       IN IF Len(rects) = 0 THEN rest
          ELSE <<LinkEntry(page, rects, definitions[1].action)>> \o rest

\* The loop of build_link_entries from `page` on: the first failing
\* page_links call ends it with that error.
RECURSIVE BuildLinksFromPage(_, _)
BuildLinksFromPage(doc, page) ==
  IF page >= doc.info.page_count THEN Ok(<<>>)
  ELSE LET definitions == page_links(doc.backend, page)
       IN IF ~definitions.ok THEN Err
          ELSE LET rest == BuildLinksFromPage(doc, page + 1)
               IN IF ~rest.ok THEN Err
                  ELSE Ok(EntriesOfPage(page, definitions.val) \o rest.val)

build_link_entries(doc) == BuildLinksFromPage(doc, 0)

\* Variant: the first link of all.
PositionFirst(links, page) == IF Len(links) > 0 THEN Some(0) ELSE None

\* links.iter().position(|link| link.page == page)
PositionOnPage(links, page) ==
  LET at == {i \in 0..(Len(links) - 1) : links[i + 1].page = page}
  IN IF at = {} THEN None ELSE Some(CHOOSE i \in at : \A j \in at : i <= j)

\* Variant: no link is looked for after the page.
PositionAfterPageNone(links, page) == None

\* links.iter().position(|link| link.page > page)
PositionAfterPage(links, page) ==
  LET at == {i \in 0..(Len(links) - 1) : links[i + 1].page > page}
  IN IF at = {} THEN None ELSE Some(CHOOSE i \in at : \A j \in at : i <= j)

start_link_mode(doc) ==
  LET entries == build_link_entries(doc)
  IN IF ~entries.ok THEN [doc |-> doc, ok |-> FALSE]
     ELSE [doc |-> [doc EXCEPT !.link_state =
                      Some([links |-> entries.val,
                            current_index |->
                              PositionOnPage(entries.val, doc.state.current_page)])],
           ok |-> TRUE]

clear_link_state(doc) == [doc EXCEPT !.link_state = None]

apply_link_index(doc, index) ==
  IF ~IsSome(doc.link_state)
  THEN [doc |-> doc, changed |-> FALSE]
  ELSE LET state == Unwrap(doc.link_state)
       IN IF Len(state.links) = 0 \/ index >= Len(state.links)
          THEN [doc |-> [doc EXCEPT !.link_state =
                           Some([state EXCEPT !.current_index = None])],
                changed |-> FALSE]
          ELSE LET target_page == Min(state.links[index + 1].page, LastPage(doc))
                   previous == current_position(doc)
                   indexed == [doc EXCEPT !.link_state =
                                 Some([state EXCEPT !.current_index = Some(index)])]
                   moved == [indexed EXCEPT
                               !.state.current_page = target_page,
                               !.state.viewport = ViewportReset(doc.state.viewport)]
               IN IF target_page /= doc.state.current_page
                  THEN [doc |-> sync_jump_position(record_jump_from(moved, previous)),
                        changed |-> TRUE]
                  ELSE [doc |-> sync_jump_position(indexed), changed |-> FALSE]

advance_link(doc, forward, count) ==
  IF count = 0 THEN [doc |-> doc, ret |-> "false"]
  ELSE IF ~IsSome(doc.link_state) THEN [doc |-> doc, ret |-> "None"]
  ELSE LET state == Unwrap(doc.link_state)
           total == Len(state.links)
       IN IF total = 0 THEN [doc |-> doc, ret |-> "false"]
          ELSE IF ~IsSome(state.current_index)
          THEN LET on_page == PositionOnPage(state.links, doc.state.current_page)
                   after == PositionAfterPage(state.links, doc.state.current_page)
                   desired == IF IsSome(on_page) THEN Unwrap(on_page)
                              ELSE UnwrapOr(after, 0)
                   seeded == [doc EXCEPT !.link_state =
                                Some([state EXCEPT !.current_index = Some(desired)])]
                   applied == apply_link_index(seeded, desired)
               IN [doc |-> applied.doc, ret |-> BoolResult(applied.changed)]
          ELSE LET current == Min(Unwrap(state.current_index), total - 1)
                   steps == count % total
                   target == IF steps = 0 THEN current
                             ELSE IF forward THEN (current + steps) % total
                             ELSE (current + total - steps) % total
                   applied == apply_link_index(doc, target)
               IN [doc |-> applied.doc, ret |-> BoolResult(applied.changed)]

next_link(doc, count) == advance_link(doc, TRUE, count)

previous_link(doc, count) == advance_link(doc, FALSE, count)

link_summary(doc) ==
  IF IsSome(doc.link_state)
  THEN Some([total |-> Len(Unwrap(doc.link_state).links),
             current_index |-> Unwrap(doc.link_state).current_index])
  ELSE None

\* LinkFollowResult
Navigated(page_changed) == [variant |-> "Navigated", page_changed |-> page_changed]

External(uri) == [variant |-> "External", target |-> [variant |-> "Url", url |-> uri]]

NoActiveLink == [variant |-> "NoActiveLink"]

\* Variant: the target page of a GoTo link is taken as it is.
GoToTargetUnclamped(doc, page) == page

GoToTarget(doc, page) == Min(page, LastPage(doc))

activate_link(doc) ==
  IF ~IsSome(doc.link_state) THEN [doc |-> doc, ret |-> NoActiveLink]
  ELSE LET state == Unwrap(doc.link_state)
       IN IF ~IsSome(state.current_index) THEN [doc |-> doc, ret |-> NoActiveLink]
          ELSE IF Unwrap(state.current_index) >= Len(state.links)
          THEN [doc |-> doc, ret |-> NoActiveLink]
          ELSE LET action == state.links[Unwrap(state.current_index) + 1].action
               IN IF action.variant = "GoTo"
                  THEN LET target_page == GoToTarget(doc, action.page)
                           previous == current_position(doc)
                           moved == [doc EXCEPT
                                       !.state.current_page = target_page,
                                       !.state.viewport =
                                          ViewportReset(doc.state.viewport)]
                       IN IF target_page /= doc.state.current_page
                          THEN [doc |-> sync_jump_position(
                                          record_jump_from(moved, previous)),
                                ret |-> Navigated(TRUE)]
                          ELSE [doc |-> sync_jump_position(doc),
                                ret |-> Navigated(FALSE)]
                  ELSE IF action.variant = "Uri"
                  THEN [doc |-> doc, ret |-> External(action.uri)]
                  ELSE [doc |-> doc, ret |-> [variant |-> "Unsupported"]]

\* ------------------------------------------------------------------------
\* Page text and the selection engine of a DocumentInstance
\* ------------------------------------------------------------------------
\* A glyph covers the bytes range.start..range.end of the page's text.
TextGlyph(start, end, rect) ==
  [range |-> [start |-> start, end |-> end], rect |-> rect]

\* PageText::new: the boundary offsets are 0 and the end of every glyph,
\* capped by the length of the text.
\* build_line_map: a glyph opens a line when its vertical center is more than
\* the threshold away from the center of the glyph before it. Of a PageLine
\* the glyph_range is kept; its center_y is written and never read.
RECURSIVE BuildLines(_, _, _, _)
BuildLines(glyphs, idx, lines, glyph_line_index) ==
  IF idx >= Len(glyphs)
  THEN [line_map |-> lines, glyph_line_index |-> glyph_line_index]
  ELSE LET center == (glyphs[idx + 1].rect.top + glyphs[idx + 1].rect.bottom) \div 2
           prev == (glyphs[idx].rect.top + glyphs[idx].rect.bottom) \div 2
           new_line == IF idx = 0 THEN TRUE ELSE Abs(prev - center) > LineThreshold
           opened == IF new_line
                     THEN Append(lines, [glyph_range |-> [start |-> idx, end |-> idx]])
                     ELSE lines
           grown == [opened EXCEPT ![Len(opened)].glyph_range.end = idx + 1]
       IN BuildLines(glyphs, idx + 1, grown,
                     Append(glyph_line_index, Len(grown) - 1))

\* Variant: every glyph is put on one line.
build_line_map_one_line(glyphs) ==
  IF Len(glyphs) = 0 THEN [line_map |-> <<>>, glyph_line_index |-> <<>>]
  ELSE [line_map |-> <<[glyph_range |-> [start |-> 0, end |-> Len(glyphs)]]>>,
        glyph_line_index |-> [i \in 1..Len(glyphs) |-> 0]]

build_line_map(glyphs) ==
  IF Len(glyphs) = 0 THEN [line_map |-> <<>>, glyph_line_index |-> <<>>]
  ELSE BuildLines(glyphs, 0, <<>>, <<>>)

PageTextNew(text, glyphs) ==
  [text |-> text, glyphs |-> glyphs,
   boundary_offsets |->
     <<0>> \o [i \in 1..Len(glyphs) |-> Min(glyphs[i].range.end, Len(text))],
   line_map |-> build_line_map(glyphs).line_map,
   glyph_line_index |-> build_line_map(glyphs).glyph_line_index]

line_index_for_glyph(pt, index) ==
  IF index < Len(pt.glyph_line_index) THEN Some(pt.glyph_line_index[index + 1])
  ELSE None

glyph_count(pt) == Len(pt.glyphs)

\* Variant: every glyph is taken to cover one byte.
boundary_offset_per_byte(pt, boundary) == Min(boundary, Len(pt.text))

boundary_offset(pt, boundary) ==
  IF boundary >= Len(pt.boundary_offsets) THEN Len(pt.text)
  ELSE pt.boundary_offsets[boundary + 1]

RectContains(rect, x, y) ==
  x >= rect.left /\ x <= rect.right /\ y >= rect.top /\ y <= rect.bottom

RectCenter(rect) ==
  [x |-> (rect.left + rect.right) \div 2, y |-> (rect.top + rect.bottom) \div 2]

\* The squared distance of a rectangle's centre from (x, y), in units of
\* 2^-11 so that the squares fit.
Score(rect, x, y) ==
  LET dx == (RectCenter(rect).x - x) \div 4096
      dy == (RectCenter(rect).y - y) \div 4096
  IN dx * dx + dy * dy

\* The first glyph with a valid rectangle around (x, y); else the first of
\* the glyphs with a valid rectangle nearest to it; else glyph 0.
glyph_near_point(text, x, y) ==
  LET valid == {i \in 0..(Len(text.glyphs) - 1) : RectIsValid(text.glyphs[i + 1].rect)}
      around == {i \in valid : RectContains(text.glyphs[i + 1].rect, x, y)}
      nearest == {i \in valid : \A j \in valid :
                    Score(text.glyphs[i + 1].rect, x, y)
                      <= Score(text.glyphs[j + 1].rect, x, y)}
  IN IF around /= {} THEN CHOOSE i \in around : \A j \in around : i <= j
     ELSE IF valid = {} THEN 0
     ELSE CHOOSE i \in nearest : \A j \in nearest : i <= j

SelectionPoint(page, glyph_index) == [page |-> page, glyph_index |-> glyph_index]

compare_points(a, b) ==
  IF a.page < b.page THEN "Less"
  ELSE IF a.page > b.page THEN "Greater"
  ELSE IF a.glyph_index < b.glyph_index THEN "Less"
  ELSE IF a.glyph_index > b.glyph_index THEN "Greater"
  ELSE "Equal"

\* Variant: the anchor is taken for the start, whatever the order.
normalized_anchor_first(selection) ==
  [start |-> selection.anchor, end |-> selection.head]

\* SelectionState::normalized
normalized(selection) ==
  IF compare_points(selection.anchor, selection.head) = "Greater"
  THEN [start |-> selection.head, end |-> selection.anchor]
  ELSE [start |-> selection.anchor, end |-> selection.head]

\* page_text_entry: the text of the page through the text cache of the
\* document; `doc` is the document with the cache the call leaves.
page_text_entry(doc, page_index) ==
  Bind(load_cached_page_text(page_index, doc.info, doc.backend, doc.text_cache),
       LAMBDA out :
         [doc |-> [doc EXCEPT !.text_cache = out.cache], ok |-> out.res.ok,
          text |-> out.res.val])

cursor_center(doc, point) ==
  Bind(page_text_entry(doc, point.page),
       LAMBDA entry :
         LET idx == Min(point.glyph_index,
                        SaturatingSub(glyph_count(entry.text), 1))
         IN [doc |-> entry.doc,
             center |-> IF ~entry.ok THEN None
                        ELSE IF glyph_count(entry.text) = 0 THEN None
                        ELSE IF RectIsValid(entry.text.glyphs[idx + 1].rect)
                        THEN Some(RectCenter(entry.text.glyphs[idx + 1].rect))
                        ELSE None])

update_column_hint(doc, point) ==
  Bind(cursor_center(doc, point),
       LAMBDA out :
         IF IsSome(out.center)
         THEN [out.doc EXCEPT !.visual_column_hint = Unwrap(out.center).x]
         ELSE out.doc)

clamp_point(doc, point) ==
  IF doc.info.page_count = 0
  THEN [doc |-> doc, ok |-> TRUE, point |-> SelectionPoint(0, 0)]
  ELSE LET page == IF point.page >= doc.info.page_count
                   THEN doc.info.page_count - 1 ELSE point.page
       IN Bind(page_text_entry(doc, page),
               LAMBDA entry :
                 IF ~entry.ok
                 THEN [doc |-> entry.doc, ok |-> FALSE, point |-> point]
                 ELSE [doc |-> entry.doc, ok |-> TRUE,
                       point |-> SelectionPoint(
                                   page, Min(point.glyph_index,
                                             glyph_count(entry.text)))])

initial_cursor_point(doc) ==
  IF IsSome(doc.visual_cursor) THEN clamp_point(doc, Unwrap(doc.visual_cursor))
  ELSE LET page == Min(doc.state.current_page, LastPage(doc))
       IN Bind(page_text_entry(doc, page),
               LAMBDA entry :
                 IF ~entry.ok
                 THEN [doc |-> entry.doc, ok |-> FALSE,
                       point |-> SelectionPoint(page, 0)]
                 ELSE [doc |-> entry.doc, ok |-> TRUE,
                       point |-> SelectionPoint(page,
                                   IF glyph_count(entry.text) = 0 THEN 0
                                   ELSE glyph_near_point(entry.text,
                                                         doc.state.viewport.x,
                                                         doc.state.viewport.y))])

\* The functions below return the document they leave, whether they returned
\* Ok, and the value of the Ok.
ensure_visual_cursor(doc) ==
  IF IsSome(doc.visual_cursor)
  THEN Bind(clamp_point(doc, Unwrap(doc.visual_cursor)),
            LAMBDA clamped :
              IF ~clamped.ok THEN [doc |-> clamped.doc, ok |-> FALSE, val |-> FALSE]
              ELSE IF clamped.point /= Unwrap(doc.visual_cursor)
              THEN [doc |-> update_column_hint(
                              [clamped.doc EXCEPT
                                 !.visual_cursor = Some(clamped.point)],
                              clamped.point),
                    ok |-> TRUE, val |-> TRUE]
              ELSE [doc |-> clamped.doc, ok |-> TRUE, val |-> FALSE])
  ELSE IF doc.info.page_count = 0 THEN [doc |-> doc, ok |-> TRUE, val |-> FALSE]
  ELSE Bind(initial_cursor_point(doc),
            LAMBDA initial :
              IF ~initial.ok THEN [doc |-> initial.doc, ok |-> FALSE, val |-> FALSE]
              ELSE [doc |-> update_column_hint(
                              [initial.doc EXCEPT
                                 !.visual_cursor = Some(initial.point)],
                              initial.point),
                    ok |-> TRUE, val |-> TRUE])

start_selection(doc) ==
  IF IsSome(doc.selection_state) THEN [doc |-> doc, ok |-> TRUE, val |-> FALSE]
  ELSE Bind(ensure_visual_cursor(doc),
            LAMBDA ensured :
              IF ~ensured.ok THEN [doc |-> ensured.doc, ok |-> FALSE, val |-> FALSE]
              ELSE IF ~IsSome(ensured.doc.visual_cursor)
              THEN [doc |-> ensured.doc, ok |-> TRUE, val |-> FALSE]
              ELSE [doc |-> [ensured.doc EXCEPT !.selection_state =
                               Some([anchor |-> Unwrap(ensured.doc.visual_cursor),
                                     head |-> Unwrap(ensured.doc.visual_cursor)])],
                    ok |-> TRUE, val |-> TRUE])

increment_point(doc, point) ==
  Bind(page_text_entry(doc, point.page),
       LAMBDA entry :
         IF ~entry.ok
         THEN [doc |-> entry.doc, ok |-> FALSE, point |-> point, moved |-> FALSE]
         ELSE IF point.glyph_index < glyph_count(entry.text)
         THEN [doc |-> entry.doc, ok |-> TRUE,
               point |-> SelectionPoint(point.page, point.glyph_index + 1),
               moved |-> TRUE]
         ELSE IF point.page + 1 < doc.info.page_count
         THEN [doc |-> entry.doc, ok |-> TRUE,
               point |-> SelectionPoint(point.page + 1, 0), moved |-> TRUE]
         ELSE [doc |-> entry.doc, ok |-> TRUE, point |-> point, moved |-> FALSE])

\* On an error the point keeps the page the function had already moved it to.
\* Variant: a step to the previous page lands on its last glyph.
decrement_point_on_last_glyph(doc, point) ==
  IF point.glyph_index > 0
  THEN [doc |-> doc, ok |-> TRUE,
        point |-> SelectionPoint(point.page, point.glyph_index - 1),
        moved |-> TRUE]
  ELSE IF point.page = 0
  THEN [doc |-> doc, ok |-> TRUE, point |-> point, moved |-> FALSE]
  ELSE Bind(page_text_entry(doc, point.page - 1),
            LAMBDA entry :
              IF ~entry.ok
              THEN [doc |-> entry.doc, ok |-> FALSE,
                    point |-> SelectionPoint(point.page - 1, point.glyph_index),
                    moved |-> FALSE]
              ELSE [doc |-> entry.doc, ok |-> TRUE,
                    point |-> SelectionPoint(point.page - 1,
                                             SaturatingSub(glyph_count(entry.text), 1)),
                    moved |-> TRUE])

decrement_point(doc, point) ==
  IF point.glyph_index > 0
  THEN [doc |-> doc, ok |-> TRUE,
        point |-> SelectionPoint(point.page, point.glyph_index - 1),
        moved |-> TRUE]
  ELSE IF point.page = 0
  THEN [doc |-> doc, ok |-> TRUE, point |-> point, moved |-> FALSE]
  ELSE Bind(page_text_entry(doc, point.page - 1),
            LAMBDA entry :
              IF ~entry.ok
              THEN [doc |-> entry.doc, ok |-> FALSE,
                    point |-> SelectionPoint(point.page - 1, point.glyph_index),
                    moved |-> FALSE]
              ELSE [doc |-> entry.doc, ok |-> TRUE,
                    point |-> SelectionPoint(point.page - 1,
                                             glyph_count(entry.text)),
                    moved |-> TRUE])

\* The loop of adjust_point: `left` steps in the direction of `forward`.
RECURSIVE AdjustLoop(_, _, _, _, _)
AdjustLoop(doc, point, forward, left, moved) ==
  IF left = 0 THEN [doc |-> doc, ok |-> TRUE, point |-> point, moved |-> moved]
  ELSE Bind(IF forward THEN increment_point(doc, point)
            ELSE decrement_point(doc, point),
            LAMBDA step :
              IF ~step.ok THEN step
              ELSE IF ~step.moved
              THEN [doc |-> step.doc, ok |-> TRUE, point |-> step.point,
                    moved |-> moved]
              ELSE AdjustLoop(step.doc, step.point, forward, left - 1, TRUE))

adjust_point(doc, point, delta) ==
  IF delta = 0 THEN [doc |-> doc, ok |-> TRUE, point |-> point, moved |-> FALSE]
  ELSE AdjustLoop(doc, point, delta > 0, Abs(delta), FALSE)

\* Variant: the glyph index is kept as it is on the target page.
move_pages_keeping_index(doc, point, delta) ==
  IF delta = 0 \/ doc.info.page_count = 0
  THEN [doc |-> doc, ok |-> TRUE, point |-> point, moved |-> FALSE]
  ELSE LET target == Clamp(point.page + delta, 0, LastPage(doc))
       IN IF target = point.page
          THEN [doc |-> doc, ok |-> TRUE, point |-> point, moved |-> FALSE]
          ELSE [doc |-> doc, ok |-> TRUE,
                point |-> SelectionPoint(target, point.glyph_index),
                moved |-> TRUE]

move_pages(doc, point, delta) ==
  IF delta = 0 \/ doc.info.page_count = 0
  THEN [doc |-> doc, ok |-> TRUE, point |-> point, moved |-> FALSE]
  ELSE LET target == Clamp(point.page + delta, 0, LastPage(doc))
       IN IF target = point.page
          THEN [doc |-> doc, ok |-> TRUE, point |-> point, moved |-> FALSE]
          ELSE Bind(page_text_entry(doc, target),
                    LAMBDA entry :
                      IF ~entry.ok
                      THEN [doc |-> entry.doc, ok |-> FALSE,
                            point |-> SelectionPoint(target, point.glyph_index),
                            moved |-> FALSE]
                      ELSE [doc |-> entry.doc, ok |-> TRUE,
                            point |-> SelectionPoint(
                                        target, Min(point.glyph_index,
                                                    glyph_count(entry.text))),
                            moved |-> TRUE])

\* Variant: the selection is remembered as anchor and head, not ordered.
remember_selection_unordered(doc) ==
  IF IsSome(doc.selection_state)
  THEN [doc EXCEPT !.last_selection =
          Some([start |-> Unwrap(doc.selection_state).anchor,
                end |-> Unwrap(doc.selection_state).head])]
  ELSE doc

remember_selection(doc) ==
  IF IsSome(doc.selection_state)
  THEN [doc EXCEPT !.last_selection = Some(normalized(Unwrap(doc.selection_state)))]
  ELSE doc

clear_selection_state(doc, remember) ==
  IF IsSome(doc.selection_state)
  THEN LET remembered == IF remember THEN remember_selection(doc) ELSE doc
           head == Unwrap(doc.selection_state).head
       IN [doc |-> update_column_hint(
                     [remembered EXCEPT !.selection_state = None,
                                        !.visual_cursor = Some(head)], head),
           changed |-> TRUE]
  ELSE [doc |-> doc, changed |-> FALSE]

leave_visual_mode(doc, remember) ==
  LET cleared == clear_selection_state(doc, remember)
  IN [doc |-> [cleared.doc EXCEPT !.visual_cursor = None],
      changed |-> cleared.changed \/ IsSome(cleared.doc.visual_cursor)]

restore_last_selection(doc) ==
  IF ~IsSome(doc.last_selection) THEN [doc |-> doc, ok |-> TRUE, val |-> FALSE]
  ELSE Bind(clamp_point(doc, Unwrap(doc.last_selection).start),
            LAMBDA start :
              IF ~start.ok THEN [doc |-> start.doc, ok |-> FALSE, val |-> FALSE]
              ELSE Bind(clamp_point(start.doc, Unwrap(doc.last_selection).end),
                        LAMBDA end :
                          IF ~end.ok
                          THEN [doc |-> end.doc, ok |-> FALSE, val |-> FALSE]
                          ELSE [doc |-> update_column_hint(
                                          [end.doc EXCEPT
                                             !.selection_state =
                                                Some([anchor |-> start.point,
                                                      head |-> end.point]),
                                             !.visual_cursor = Some(end.point)],
                                          end.point),
                                ok |-> TRUE, val |-> TRUE]))

swap_visual_cursor(doc) ==
  IF IsSome(doc.selection_state)
  THEN LET state == Unwrap(doc.selection_state)
       IN [doc |-> update_column_hint(
                     [doc EXCEPT !.selection_state =
                                    Some([anchor |-> state.head,
                                          head |-> state.anchor]),
                                 !.visual_cursor = Some(state.anchor)],
                     state.anchor),
           changed |-> TRUE]
  ELSE [doc |-> doc, changed |-> FALSE]

\* The loop of extract_selection_text from `page` on, with the buffer filled
\* so far.
RECURSIVE ExtractFromPage(_, _, _, _)
ExtractFromPage(doc, snapshot, page, buffer) ==
  IF page > snapshot.end.page THEN [doc |-> doc, ok |-> TRUE, text |-> buffer]
  ELSE Bind(page_text_entry(doc, page),
            LAMBDA entry :
              LET count == glyph_count(entry.text)
                  start_idx == IF page = snapshot.start.page
                               THEN Min(snapshot.start.glyph_index, count) ELSE 0
                  end_idx == IF page = snapshot.end.page
                             THEN Min(snapshot.end.glyph_index, count) ELSE count
                  start_offset == boundary_offset(entry.text, start_idx)
                  end_offset == boundary_offset(entry.text, end_idx)
                  filled == IF /\ start_idx < end_idx
                               /\ end_offset > start_offset
                               /\ end_offset <= Len(entry.text.text)
                            THEN (IF Len(buffer) > 0 THEN buffer \o <<"\n">>
                                  ELSE buffer)
                                 \o SubSeq(entry.text.text, start_offset + 1,
                                           end_offset)
                            ELSE buffer
              IN IF ~entry.ok
                 THEN [doc |-> entry.doc, ok |-> FALSE, text |-> buffer]
                 ELSE Bind(filled,
                           LAMBDA text :
                             IF page = snapshot.end.page
                             THEN [doc |-> entry.doc, ok |-> TRUE, text |-> text]
                             ELSE ExtractFromPage(entry.doc, snapshot, page + 1,
                                                  text)))

extract_selection_text(doc, snapshot) ==
  ExtractFromPage(doc, snapshot, snapshot.start.page, <<>>)

\* The Option<String> that DocumentInstance::selection_text returns.
selection_text(doc) ==
  IF ~IsSome(doc.selection_state) THEN None
  ELSE Bind(extract_selection_text(doc, normalized(Unwrap(doc.selection_state))),
            LAMBDA out : IF out.ok THEN Some(out.text) ELSE None)

\* The motions of the visual cursor that take it across glyphs and pages;
\* the word and line motions are not part of the model.
\* move_lines: the loop over the remaining steps, forward for Down.
RECURSIVE MoveLinesLoop(_, _, _, _)
MoveLinesLoop(doc, point, remaining, moved) ==
  IF remaining = 0
  THEN [doc |-> doc, ok |-> TRUE, point |-> point, moved |-> moved]
  ELSE Bind(page_text_entry(doc, point.page),
            LAMBDA entry :
              LET count == glyph_count(entry.text)
                  lines == entry.text.line_map
                  idx == IF count = 0 THEN 0
                         ELSE Min(point.glyph_index, SaturatingSub(count, 1))
                  line_idx == UnwrapOr(line_index_for_glyph(entry.text, idx),
                                       SaturatingSub(Len(lines), 1))
                  stop == [doc |-> entry.doc, ok |-> TRUE, point |-> point,
                           moved |-> moved]
                  next_page == SelectionPoint(point.page + 1, 0)
              IN IF ~entry.ok
                 THEN [doc |-> entry.doc, ok |-> FALSE, point |-> point,
                       moved |-> FALSE]
                 ELSE IF Len(lines) = 0
                 THEN IF remaining > 0
                      THEN IF point.page + 1 >= doc.info.page_count THEN stop
                           ELSE MoveLinesLoop(entry.doc, next_page,
                                              remaining - 1, TRUE)
                      ELSE IF point.page = 0 THEN stop
                           ELSE MoveLinesLoop(entry.doc,
                                              SelectionPoint(point.page - 1, 0),
                                              remaining + 1, TRUE)
                 ELSE IF remaining > 0
                 THEN IF line_idx + 1 < Len(lines)
                      THEN MoveLinesLoop(
                             entry.doc,
                             SelectionPoint(point.page,
                                            lines[line_idx + 2].glyph_range.start),
                             remaining - 1, TRUE)
                      ELSE IF point.page + 1 >= doc.info.page_count THEN stop
                      ELSE MoveLinesLoop(entry.doc, next_page, remaining - 1, TRUE)
                 ELSE IF line_idx > 0
                 THEN MoveLinesLoop(
                        entry.doc,
                        SelectionPoint(point.page,
                                       lines[line_idx].glyph_range.start),
                        remaining + 1, TRUE)
                 ELSE IF point.page = 0 THEN stop
                 ELSE Bind(page_text_entry(entry.doc, point.page - 1),
                           LAMBDA prev :
                             IF ~prev.ok
                             THEN [doc |-> prev.doc, ok |-> FALSE,
                                   point |-> SelectionPoint(point.page - 1,
                                                            point.glyph_index),
                                   moved |-> FALSE]
                             ELSE MoveLinesLoop(
                                    prev.doc,
                                    SelectionPoint(
                                      point.page - 1,
                                      IF Len(prev.text.line_map) > 0
                                      THEN Last(prev.text.line_map).glyph_range.start
                                      ELSE 0),
                                    remaining + 1, TRUE)))

move_lines(doc, point, delta) ==
  IF delta = 0 THEN [doc |-> doc, ok |-> TRUE, point |-> point, moved |-> FALSE]
  ELSE MoveLinesLoop(doc, point, delta, FALSE)

\* The first char of a byte string: two bytes after the lead byte C3, else one.
FirstChar(bytes) ==
  IF Len(bytes) = 0 THEN None
  ELSE IF bytes[1] = "C3" THEN Some(SubSeq(bytes, 1, 2))
  ELSE Some(<<bytes[1]>>)

\* PageText::glyph_char: the first char of the text the glyph covers.
glyph_char(pt, index) ==
  IF index >= Len(pt.glyphs) THEN None
  ELSE FirstChar(SubSeq(pt.text, pt.glyphs[index + 1].range.start + 1,
                        pt.glyphs[index + 1].range.end))

\* char::is_alphanumeric on the chars of the model: the ASCII letters and
\* digits it uses and e-acute.
is_alphanumeric(ch) ==
  \/ ch \in {<<c>> : c \in {"a", "b", "c", "d", "e", "k", "x", "K", "0", "1"}}
  \/ ch = <<"C3", "A9">>

is_word_char(ch) == is_alphanumeric(ch) \/ ch = <<"_">>

\* skip_while: word tells whether the predicate is is_word_char or its
\* negation.
RECURSIVE skip_while(_, _, _, _, _)
skip_while(doc, point, word, forward, changed) ==
  Bind(page_text_entry(doc, point.page),
       LAMBDA entry :
         LET stop == [doc |-> entry.doc, ok |-> TRUE, point |-> point,
                      moved |-> changed]
             at == IF forward THEN point.glyph_index
                   ELSE SaturatingSub(point.glyph_index, 1)
             ch == glyph_char(entry.text, at)
             boundary == IF forward THEN point.glyph_index >= glyph_count(entry.text)
                         ELSE point.glyph_index = 0
         IN IF ~entry.ok
            THEN [doc |-> entry.doc, ok |-> FALSE, point |-> point, moved |-> FALSE]
            ELSE IF boundary \/ (IsSome(ch) /\ (is_word_char(Unwrap(ch)) = word))
            THEN Bind(IF forward THEN increment_point(entry.doc, point)
                      ELSE decrement_point(entry.doc, point),
                      LAMBDA step :
                        IF ~step.ok THEN step
                        ELSE IF ~step.moved
                        THEN [doc |-> step.doc, ok |-> TRUE, point |-> step.point,
                              moved |-> changed]
                        ELSE skip_while(step.doc, step.point, word, forward, TRUE))
            ELSE stop)

\* move_word: count times, skip the chars that are not of a word and then
\* the chars of a word.
RECURSIVE MoveWordLoop(_, _, _, _, _)
MoveWordLoop(doc, point, left, forward, moved) ==
  IF left = 0 THEN [doc |-> doc, ok |-> TRUE, point |-> point, moved |-> moved]
  ELSE Bind(skip_while(doc, point, FALSE, forward, FALSE),
            LAMBDA gap :
              IF ~gap.ok THEN gap
              ELSE Bind(skip_while(gap.doc, gap.point, TRUE, forward, FALSE),
                        LAMBDA word :
                          IF ~word.ok THEN word
                          ELSE MoveWordLoop(word.doc, word.point, left - 1, forward,
                                            moved \/ gap.moved \/ word.moved)))

move_word(doc, point, count, forward) ==
  MoveWordLoop(doc, point, Max(count, 1), forward, FALSE)

move_to_line_boundary(doc, point, to_start) ==
  Bind(page_text_entry(doc, point.page),
       LAMBDA entry :
         LET count == glyph_count(entry.text)
             lines == entry.text.line_map
             idx == IF count = 0 THEN 0
                    ELSE Min(point.glyph_index, SaturatingSub(count, 1))
             line_idx == UnwrapOr(line_index_for_glyph(entry.text, idx),
                                  SaturatingSub(Len(lines), 1))
             target_index == IF to_start THEN lines[line_idx + 1].glyph_range.start
                             ELSE Min(lines[line_idx + 1].glyph_range.end, count)
         IN IF ~entry.ok
            THEN [doc |-> entry.doc, ok |-> FALSE, point |-> point, moved |-> FALSE]
            ELSE IF Len(lines) = 0 \/ point.glyph_index = target_index
            THEN [doc |-> entry.doc, ok |-> TRUE, point |-> point, moved |-> FALSE]
            ELSE [doc |-> entry.doc, ok |-> TRUE,
                  point |-> SelectionPoint(point.page, target_index),
                  moved |-> TRUE])

\* Variant: the head of the selection is not moved with the cursor.
move_visual_cursor_keeping_head(doc, motion, count) ==
  IF doc.info.page_count = 0 THEN [doc |-> doc, ok |-> TRUE, val |-> FALSE]
  ELSE Bind(ensure_visual_cursor(doc),
            LAMBDA ensured :
              LET at == ensured.doc
                  cursor == Unwrap(at.visual_cursor)
                  steps == Max(count, 1)
                  target_page == IF steps > 1 THEN Min(steps - 1, LastPage(at))
                                 ELSE 0
                  document_end ==
                    Bind(page_text_entry(at, LastPage(at)),
                         LAMBDA end_text :
                           IF ~end_text.ok
                           THEN [doc |-> end_text.doc, ok |-> FALSE,
                                 point |-> cursor, moved |-> FALSE]
                           ELSE [doc |-> end_text.doc, ok |-> TRUE,
                                 point |-> SelectionPoint(
                                             LastPage(at),
                                             glyph_count(end_text.text)),
                                 moved |-> cursor /= SelectionPoint(
                                             LastPage(at),
                                             glyph_count(end_text.text))])
                  target ==
                    IF motion = "Left" THEN adjust_point(at, cursor, 0 - steps)
                    ELSE IF motion = "Right" THEN adjust_point(at, cursor, steps)
                    ELSE IF motion = "PageForward"
                    THEN move_pages(at, cursor, steps)
                    ELSE IF motion = "PageBackward"
                    THEN move_pages(at, cursor, 0 - steps)
                    ELSE IF motion = "WordForward"
                    THEN move_word(at, cursor, steps, TRUE)
                    ELSE IF motion = "WordBackward"
                    THEN move_word(at, cursor, steps, FALSE)
                    ELSE IF motion = "LineStart"
                    THEN move_to_line_boundary(at, cursor, TRUE)
                    ELSE IF motion = "LineEnd"
                    THEN move_to_line_boundary(at, cursor, FALSE)
                    ELSE IF motion = "Down" THEN move_lines(at, cursor, steps)
                    ELSE IF motion = "Up" THEN move_lines(at, cursor, 0 - steps)
                    ELSE IF motion = "DocumentStart"
                    THEN [doc |-> at, ok |-> TRUE,
                          point |-> SelectionPoint(target_page, 0),
                          moved |-> cursor /= SelectionPoint(target_page, 0)]
                    ELSE document_end
              IN IF ~ensured.ok
                 THEN [doc |-> ensured.doc, ok |-> FALSE, val |-> FALSE]
                 ELSE IF ~IsSome(at.visual_cursor)
                 THEN [doc |-> at, ok |-> TRUE, val |-> FALSE]
                 ELSE Bind(target,
                           LAMBDA out :
                             IF ~out.ok
                             THEN [doc |-> out.doc, ok |-> FALSE, val |-> FALSE]
                             ELSE IF ~out.moved
                             THEN [doc |-> out.doc, ok |-> TRUE, val |-> FALSE]
                             ELSE Bind(update_column_hint(
                                         [out.doc EXCEPT
                                            !.visual_cursor = Some(out.point)],
                                         out.point),
                                       LAMBDA hinted :
                                         LET paged ==
                                               IF hinted.state.current_page
                                                    /= out.point.page
                                               THEN [hinted EXCEPT
                                                       !.state.current_page =
                                                          out.point.page,
                                                       !.state.viewport =
                                                          ViewportReset(
                                                            hinted.state.viewport)]
                                               ELSE hinted
                                         IN [doc |-> paged, ok |-> TRUE,
                                             val |-> TRUE])))

move_visual_cursor(doc, motion, count) ==
  IF doc.info.page_count = 0 THEN [doc |-> doc, ok |-> TRUE, val |-> FALSE]
  ELSE Bind(ensure_visual_cursor(doc),
            LAMBDA ensured :
              LET at == ensured.doc
                  cursor == Unwrap(at.visual_cursor)
                  steps == Max(count, 1)
                  target_page == IF steps > 1 THEN Min(steps - 1, LastPage(at))
                                 ELSE 0
                  document_end ==
                    Bind(page_text_entry(at, LastPage(at)),
                         LAMBDA end_text :
                           IF ~end_text.ok
                           THEN [doc |-> end_text.doc, ok |-> FALSE,
                                 point |-> cursor, moved |-> FALSE]
                           ELSE [doc |-> end_text.doc, ok |-> TRUE,
                                 point |-> SelectionPoint(
                                             LastPage(at),
                                             glyph_count(end_text.text)),
                                 moved |-> cursor /= SelectionPoint(
                                             LastPage(at),
                                             glyph_count(end_text.text))])
                  target ==
                    IF motion = "Left" THEN adjust_point(at, cursor, 0 - steps)
                    ELSE IF motion = "Right" THEN adjust_point(at, cursor, steps)
                    ELSE IF motion = "PageForward"
                    THEN move_pages(at, cursor, steps)
                    ELSE IF motion = "PageBackward"
                    THEN move_pages(at, cursor, 0 - steps)
                    ELSE IF motion = "WordForward"
                    THEN move_word(at, cursor, steps, TRUE)
                    ELSE IF motion = "WordBackward"
                    THEN move_word(at, cursor, steps, FALSE)
                    ELSE IF motion = "LineStart"
                    THEN move_to_line_boundary(at, cursor, TRUE)
                    ELSE IF motion = "LineEnd"
                    THEN move_to_line_boundary(at, cursor, FALSE)
                    ELSE IF motion = "Down" THEN move_lines(at, cursor, steps)
                    ELSE IF motion = "Up" THEN move_lines(at, cursor, 0 - steps)
                    ELSE IF motion = "DocumentStart"
                    THEN [doc |-> at, ok |-> TRUE,
                          point |-> SelectionPoint(target_page, 0),
                          moved |-> cursor /= SelectionPoint(target_page, 0)]
                    ELSE document_end
              IN IF ~ensured.ok
                 THEN [doc |-> ensured.doc, ok |-> FALSE, val |-> FALSE]
                 ELSE IF ~IsSome(at.visual_cursor)
                 THEN [doc |-> at, ok |-> TRUE, val |-> FALSE]
                 ELSE Bind(target,
                           LAMBDA out :
                             IF ~out.ok
                             THEN [doc |-> out.doc, ok |-> FALSE, val |-> FALSE]
                             ELSE IF ~out.moved
                             THEN [doc |-> out.doc, ok |-> TRUE, val |-> FALSE]
                             ELSE Bind(update_column_hint(
                                         [out.doc EXCEPT
                                            !.visual_cursor = Some(out.point)],
                                         out.point),
                                       LAMBDA hinted :
                                         LET paged ==
                                               IF hinted.state.current_page
                                                    /= out.point.page
                                               THEN [hinted EXCEPT
                                                       !.state.current_page =
                                                          out.point.page,
                                                       !.state.viewport =
                                                          ViewportReset(
                                                            hinted.state.viewport)]
                                               ELSE hinted
                                         IN [doc |->
                                               IF IsSome(paged.selection_state)
                                               THEN [paged EXCEPT
                                                       !.selection_state =
                                                         Some([Unwrap(
                                                             paged.selection_state)
                                                           EXCEPT !.head = out.point])]
                                               ELSE paged,
                                             ok |-> TRUE, val |-> TRUE])))

\* ------------------------------------------------------------------------
\* Render cache of a DocumentInstance
\* ------------------------------------------------------------------------
\* round(scale * 1000) of a scale counted in multiples of 2^-23.
quantize_scale(scale) ==
  LET whole == scale \div One
      frac == scale % One
      scaled == whole * 1000 + (frac * 250 + 1048576) \div 2097152
  IN IF scaled <= 0 THEN 1 ELSE scaled

CacheKey(page_index, scale, dark_mode) ==
  [page_index |-> page_index, scale_milli |-> quantize_scale(scale),
   dark_mode |-> dark_mode]

\* Variant: the distance is taken from page 0, not from the reference page.
distance_from_first(key, reference_page) == key.page_index

distance(key, reference_page) == AbsDiff(key.page_index, reference_page)

\* The caches that store_cached_render can leave: the HashMap lists its keys
\* in an arbitrary order, the stable sort by distance keeps that order among
\* equal distances, and the first CACHE_CAPACITY keys stay: the keys beyond
\* them are dropped, farthest first, any one of several equally far.
RECURSIVE DropFarthest(_, _)
DropFarthest(keys, reference_page) ==
  IF Cardinality(keys) <= CACHE_CAPACITY
  THEN {keys}
  ELSE UNION {DropFarthest(keys \ {stale}, reference_page) :
                stale \in {k \in keys : \A o \in keys :
                             distance(o, reference_page) <= distance(k, reference_page)}}

store_cached_render(cache, key, reference_page) ==
  DropFarthest(cache \cup {key}, reference_page)

\* Variant: the page index is not checked against the page count.
render_page_internal_unchecked(doc, page_index, scale, dark_mode, reference_page, rendered) ==
  LET key == CacheKey(page_index, scale, dark_mode)
  IN IF key \in doc.render_cache
     THEN [caches |-> {doc.render_cache}, ret |-> "Ok", stored |-> FALSE,
           called |-> FALSE, error |-> "none"]
     ELSE IF ~rendered
     THEN [caches |-> {doc.render_cache}, ret |-> "Err", stored |-> FALSE,
           called |-> TRUE, error |-> "backend"]
     ELSE [caches |-> store_cached_render(doc.render_cache, key, reference_page),
           ret |-> "Ok", stored |-> TRUE, called |-> TRUE, error |-> "none"]

\* `rendered` tells whether backend.render_page succeeds for the request,
\* `called` whether it was called, `error` which error was returned.
render_page_internal(doc, page_index, scale, dark_mode, reference_page, rendered) ==
  LET key == CacheKey(page_index, scale, dark_mode)
  IN IF page_index >= doc.info.page_count
     THEN [caches |-> {doc.render_cache}, ret |-> "Err", stored |-> FALSE,
           called |-> FALSE, error |-> "out of range"]
     ELSE IF key \in doc.render_cache
     THEN [caches |-> {doc.render_cache}, ret |-> "Ok", stored |-> FALSE,
           called |-> FALSE, error |-> "none"]
     ELSE IF ~rendered
     THEN [caches |-> {doc.render_cache}, ret |-> "Err", stored |-> FALSE,
           called |-> TRUE, error |-> "backend"]
     ELSE [caches |-> store_cached_render(doc.render_cache, key, reference_page),
           ret |-> "Ok", stored |-> TRUE, called |-> TRUE, error |-> "none"]

\* ------------------------------------------------------------------------
\* EventMapper (src/termpdf-tty/src/lib.rs)
\* ------------------------------------------------------------------------
\* The fields the Normal mode reads and writes; the buffers of the Toc and
\* Command modes stay empty as long as the mapper is in Normal mode.  Strings
\* are sequences of characters.
EventMapperNew ==
  [pending_count |-> None, pending_digits |-> <<>>, char_stack |-> <<>>,
   mode |-> "Normal", search_buffer |-> <<>>]

\* A key event: a KeyCode (a character, or the name of a special key) and its
\* modifiers (NONE, SHIFT or CONTROL).
KeyEvent(code, mods) == [kind |-> "Key", code |-> code, mods |-> mods]

SpecialKeys == {"Left", "Right", "Up", "Down", "Tab", "End"}

IsCharKey(code) == code \notin SpecialKeys

DigitChars == <<"0", "1", "2", "3", "4", "5", "6", "7", "8", "9">>

is_ascii_digit(c) == \E d \in 1..Len(DigitChars) : DigitChars[d] = c

to_digit(c) == (CHOOSE d \in 1..Len(DigitChars) : DigitChars[d] = c) - 1

\* UiEvent: None, Quit, BeginSearch, or a Command with its count or key.
UiEvent(type) == [type |-> type, command |-> "", count |-> 0, key |-> ""]

UiCommand(command, count, key) ==
  [type |-> "Command", command |-> command, count |-> count, key |-> key]

\* usize::saturating_mul and usize::saturating_add.
saturating_mul(a, b) == Min(a * b, UsizeMax)

saturating_add(a, b) == Min(a + b, UsizeMax)

push_digit(m, digit) ==
  [m EXCEPT !.pending_count =
              Some(saturating_add(saturating_mul(UnwrapOr(m.pending_count, 0), 10),
                                  digit)),
            !.pending_digits = Append(m.pending_digits, DigitChars[digit + 1])]

take_count(m) ==
  [mapper |-> [m EXCEPT !.pending_count = None, !.pending_digits = <<>>],
   count |-> IF IsSome(m.pending_count) /\ Unwrap(m.pending_count) > 0
             THEN Unwrap(m.pending_count) ELSE 1]

reset_count(m) == [m EXCEPT !.pending_count = None, !.pending_digits = <<>>]

push_char(m, c) == [m EXCEPT !.char_stack = Append(m.char_stack, c)]

reset_char_stack(m) == [m EXCEPT !.char_stack = <<>>]

\* set_mode from the Normal mode.
set_mode(m, mode) ==
  IF m.mode /= mode
  THEN [reset_char_stack(reset_count(m)) EXCEPT
          !.mode = mode,
          !.search_buffer = IF mode = "Search" THEN <<>> ELSE m.search_buffer]
  ELSE m

\* pan: the deltas are PAN_STEP times the count taken, in the given direction.
pan(m, direction) ==
  [mapper |-> reset_char_stack(take_count(m).mapper),
   out |-> UiCommand("AdjustViewport", take_count(m).count, direction)]

Mapped(m, out) == [mapper |-> m, out |-> out]

\* The arms of map_event_normal that come after the pan keys.
map_event_normal_rest(m, code, mods) ==
  IF (code = "j" /\ mods = "NONE") \/ (code = "Down" /\ mods = "NONE")
  THEN Mapped(take_count(m).mapper, UiCommand("NextPage", take_count(m).count, ""))
  ELSE IF (code = "k" /\ mods = "NONE") \/ (code = "Up" /\ mods = "NONE")
  THEN Mapped(take_count(m).mapper, UiCommand("PrevPage", take_count(m).count, ""))
  ELSE IF code = "/" /\ mods = "NONE"
  THEN Mapped(set_mode(m, "Search"), UiEvent("BeginSearch"))
  ELSE IF code = "l" /\ mods = "NONE"
  THEN Mapped(set_mode(m, "Link"), UiCommand("EnterLinkMode", 0, ""))
  ELSE IF code = ":" /\ mods \in {"NONE", "SHIFT"}
  THEN Mapped(set_mode(m, "Command"), UiEvent("CommandModeBegin"))
  ELSE IF code = "n" /\ mods = "NONE"
  THEN Mapped(take_count(m).mapper, UiCommand("SearchNext", take_count(m).count, ""))
  ELSE IF code = "N" /\ mods \in {"NONE", "SHIFT"}
  THEN Mapped(take_count(m).mapper, UiCommand("SearchPrev", take_count(m).count, ""))
  ELSE IF code = "q" THEN Mapped(reset_count(m), UiEvent("Quit"))
  ELSE IF (code \in {"o", "i"} /\ mods = "CONTROL")
          \/ (code = "Tab" /\ mods \in {"NONE", "CONTROL"})
  THEN Mapped(reset_char_stack(reset_count(m)),
              UiCommand(IF code = "o" THEN "JumpBackward" ELSE "JumpForward", 0, ""))
  ELSE IF code \in {"+", "-"} THEN Mapped(reset_count(m), UiCommand("ScaleBy", 0, code))
  ELSE IF code = "d" THEN Mapped(reset_count(m), UiCommand("ToggleDarkMode", 0, ""))
  ELSE IF (code = "g" /\ mods = "NONE") \/ (code = "G" /\ mods = "SHIFT")
          \/ code = "End"
  THEN Mapped(reset_count(m), UiCommand("GotoPage", 0, code))
  ELSE IF code \in {"t", "T"}
  THEN Mapped(reset_char_stack(reset_count(m)), UiEvent("OpenTableOfContents"))
  ELSE Mapped(reset_count(m), UiEvent("None"))

\* map_event_normal, its arms in the order of the match; an event that is
\* not a key gives UiEvent::None.
map_event_normal(m, event) ==
  LET code == event.code
      mods == event.mods
  IN IF event.kind /= "Key" THEN Mapped(m, UiEvent("None"))
     ELSE IF IsCharKey(code) /\ mods = "NONE" /\ is_ascii_digit(code)
     THEN Mapped(push_digit(m, to_digit(code)), UiEvent("None"))
     ELSE IF IsCharKey(code) /\ m.char_stack = <<"m">>
     THEN Mapped(reset_char_stack(m), UiCommand("PutMark", 0, code))
     ELSE IF IsCharKey(code) /\ m.char_stack = <<"'">>
     THEN Mapped(reset_char_stack(m), UiCommand("GotoMark", 0, code))
     ELSE IF code \in {"m", "'"}
     THEN Mapped(IF m.char_stack = <<>> THEN push_char(m, code) ELSE m,
                 UiEvent("None"))
     ELSE IF code = "="
     THEN Mapped(reset_char_stack(reset_count(m)), UiCommand("ResetScale", 0, ""))
     ELSE IF code \in {"Left", "Right", "Up", "Down"} /\ mods = "CONTROL"
     THEN pan(m, code)
     ELSE IF (code = "H" /\ mods = "SHIFT") \/ (code = "h" /\ mods = "NONE")
     THEN pan(m, "Left")
     ELSE IF code = "L" /\ mods = "SHIFT" THEN pan(m, "Right")
     ELSE IF code = "K" /\ mods = "SHIFT" THEN pan(m, "Up")
     ELSE IF code = "J" /\ mods = "SHIFT" THEN pan(m, "Down")
     ELSE map_event_normal_rest(m, code, mods)

\* ------------------------------------------------------------------------
\* Session
\* ------------------------------------------------------------------------
RedrawNeeded(id) == [type |-> "RedrawNeeded", doc |-> id]

HasActive == active + 1 <= Len(documents)

ActiveDoc == documents[active + 1]

\* A command with its arguments; after_jump tells whether the command before
\* it recorded a jump.
Command(op, a, b) ==
  [op |-> op, a |-> a, b |-> b, after_jump |-> result = "recorded"]

SameCommand(c, d) == c.op = d.op /\ c.a = d.a /\ c.b = d.b

\* trace follows a session against a script of commands: step counts the
\* commands applied, on tells whether they were the first `step` commands of
\* the script.  A session with an empty script is not followed.
Followed(c) ==
  IF Len(trace.script) = 0 THEN trace
  ELSE [trace EXCEPT !.step = trace.step + 1,
                     !.on = /\ trace.on
                            /\ trace.step < Len(trace.script)
                            /\ SameCommand(trace.script[trace.step + 1], c)]

\* One call on the active document: the document becomes `doc`, `emitted`
\* is appended to the event queue, `c` is the command and `r` what the
\* handler returned or did.  jump_origin remembers the position a successful
\* JumpBackward started from, until the next command.
\* Variant: the command is applied to the first document of the session.
AppliedToFirst(c, doc, emitted, r) ==
  /\ documents' = [documents EXCEPT ![1] = doc]
  /\ events' = events \o emitted
  /\ cmd' = c
  /\ result' = r
  /\ jump_origin' = IF c.op = "JumpBackward" /\ r = "some"
                    THEN Some(current_position(ActiveDoc)) ELSE None
  /\ trace' = Followed(c)
  /\ UNCHANGED <<active, cache_log, mapper, searcher>>

Applied(c, doc, emitted, r) ==
  /\ documents' = [documents EXCEPT ![active + 1] = doc]
  /\ events' = events \o emitted
  /\ cmd' = c
  /\ result' = r
  /\ jump_origin' = IF c.op = "JumpBackward" /\ r = "some"
                    THEN Some(current_position(ActiveDoc)) ELSE None
  /\ trace' = Followed(c)
  /\ UNCHANGED <<active, cache_log, mapper, searcher>>

\* Variant: every page change records a jump, also a change by one page.
PageStepAnyDelta(doc, next) ==
  LET previous == current_position(doc)
      moved == [doc EXCEPT !.state.current_page = next,
                           !.state.viewport = ViewportReset(doc.state.viewport)]
  IN IF next /= doc.state.current_page
     THEN [doc |-> record_jump_from(moved, previous),
           emitted |-> <<RedrawNeeded(doc.info.id)>>,
           r |-> "recorded"]
     ELSE [doc |-> doc, emitted |-> <<>>, r |-> "unchanged"]

PageStep(doc, next) ==
  LET previous == current_position(doc)
      diff == AbsDiff(previous.page, next)
      moved == [doc EXCEPT !.state.current_page = next,
                           !.state.viewport = ViewportReset(doc.state.viewport)]
  IN IF next /= doc.state.current_page
     THEN [doc |-> IF diff > 1 THEN record_jump_from(moved, previous)
                              ELSE sync_jump_position(moved),
           emitted |-> <<RedrawNeeded(doc.info.id)>>,
           r |-> IF diff > 1 THEN "recorded" ELSE "synced"]
     ELSE [doc |-> doc, emitted |-> <<>>, r |-> "unchanged"]

\* a + b on usize: the sum when it fits the machine word; when it does not,
\* a panic in a build with overflow checks and the wrapped sum in one without.
usize_add(a, b) ==
  IF a + b <= UsizeMax THEN {[ok |-> TRUE, val |-> a + b]}
  ELSE {[ok |-> FALSE, val |-> 0], [ok |-> TRUE, val |-> (a + b) % (UsizeMax + 1)]}

NextPage(count) ==
  /\ HasActive
  /\ \E sum \in usize_add(ActiveDoc.state.current_page, count) :
       LET doc == ActiveDoc
           next == Min(sum.val, LastPage(doc))
           out == PageStep(doc, next)
       IN IF sum.ok
          THEN Applied(Command("NextPage", count, 0), out.doc, out.emitted, out.r)
          ELSE Applied(Command("NextPage", count, 0), doc, <<>>, "panic")

PrevPage(count) ==
  /\ HasActive
  /\ LET doc == ActiveDoc
         next == SaturatingSub(doc.state.current_page, count)
         out == PageStep(doc, next)
     IN Applied(Command("PrevPage", count, 0), out.doc, out.emitted, out.r)

GotoPage(page) ==
  /\ HasActive
  /\ LET doc == ActiveDoc
         previous == current_position(doc)
         next == Min(page, LastPage(doc))
         moved == [doc EXCEPT !.state.current_page = next,
                              !.state.viewport = ViewportReset(doc.state.viewport)]
         changed == next /= doc.state.current_page
     IN Applied(Command("GotoPage", page, 0),
                IF changed THEN record_jump_from(moved, previous) ELSE doc,
                IF changed THEN <<RedrawNeeded(doc.info.id)>> ELSE <<>>,
                IF changed THEN "recorded" ELSE "unchanged")

\* factor = num / den; the factors used keep the product exact.
F32Mul(value, num, den) == (value * num) \div den

ScaleBy(num, den) ==
  /\ HasActive
  /\ LET doc == ActiveDoc
         scale == Clamp(F32Mul(doc.state.scale, num, den), MinScale, MaxScale)
         changed == Abs(doc.state.scale - scale) > Eps
         scaled == [doc EXCEPT !.state.scale = scale,
                               !.state.viewport =
                                  IF scale <= One + Eps
                                  THEN ViewportReset(doc.state.viewport)
                                  ELSE ViewportClamp(doc.state.viewport)]
     IN Applied(Command("ScaleBy", num, den),
                IF changed THEN sync_jump_position(scaled) ELSE doc,
                IF changed THEN <<RedrawNeeded(doc.info.id)>> ELSE <<>>,
                IF changed THEN "synced" ELSE "unchanged")

ResetScale ==
  /\ HasActive
  /\ LET doc == ActiveDoc
         prev_scale == doc.state.scale
         viewport_changed == \/ Abs(doc.state.viewport.x) > Eps
                             \/ Abs(doc.state.viewport.y) > Eps
         reset == [doc EXCEPT !.state.scale = One,
                              !.state.viewport = ViewportReset(doc.state.viewport)]
         redraw == Abs(prev_scale - One) > Eps \/ viewport_changed
     IN Applied(Command("ResetScale", 0, 0), sync_jump_position(reset),
                IF redraw THEN <<RedrawNeeded(doc.info.id)>> ELSE <<>>,
                "synced")

AdjustViewport(delta_x, delta_y) ==
  /\ HasActive
  /\ LET doc == ActiveDoc
         adj == ViewportAdjust(doc.state.viewport, delta_x, delta_y)
         panned == [doc EXCEPT !.state.viewport = ViewportClamp(adj.viewport)]
     IN Applied(Command("AdjustViewport", delta_x, delta_y),
                IF adj.changed THEN sync_jump_position(panned) ELSE doc,
                IF adj.changed THEN <<RedrawNeeded(doc.info.id)>> ELSE <<>>,
                IF adj.changed THEN "synced" ELSE "unchanged")

JumpBackward ==
  /\ HasActive
  /\ LET popped == pop_jump_backward(ActiveDoc)
         applied == apply_document_position(popped.doc, Unwrap(popped.target))
     IN IF IsSome(popped.target)
        THEN Applied(Command("JumpBackward", 0, 0), applied.doc,
                     IF applied.changed
                     THEN <<RedrawNeeded(ActiveDoc.info.id)>> ELSE <<>>,
                     "some")
        ELSE Applied(Command("JumpBackward", 0, 0), popped.doc, <<>>, "none")

JumpForward ==
  /\ HasActive
  /\ LET popped == pop_jump_forward(ActiveDoc)
         applied == apply_document_position(popped.doc, Unwrap(popped.target))
     IN IF IsSome(popped.target)
        THEN Applied(Command("JumpForward", 0, 0), applied.doc,
                     IF applied.changed
                     THEN <<RedrawNeeded(ActiveDoc.info.id)>> ELSE <<>>,
                     "some")
        ELSE Applied(Command("JumpForward", 0, 0), popped.doc, <<>>, "none")

Search(query) ==
  /\ HasActive
  /\ LET out == perform_search(ActiveDoc, query)
     IN Applied(Command("Search", query, 0), out.doc,
                <<RedrawNeeded(ActiveDoc.info.id)>>, BoolResult(out.changed))

SearchNext(count) ==
  /\ HasActive
  /\ LET out == next_search_match(ActiveDoc, Max(count, 1))
     IN Applied(Command("SearchNext", count, 0), out.doc,
                IF out.ret /= "None"
                THEN <<RedrawNeeded(ActiveDoc.info.id)>> ELSE <<>>,
                out.ret)

SearchPrev(count) ==
  /\ HasActive
  /\ LET out == previous_search_match(ActiveDoc, Max(count, 1))
     IN Applied(Command("SearchPrev", count, 0), out.doc,
                IF out.ret /= "None"
                THEN <<RedrawNeeded(ActiveDoc.info.id)>> ELSE <<>>,
                out.ret)

\* Session::apply_search_results for the document `doc_id`, with the matches
\* a search context of that document built for the query.
ApplySearchResults(doc_id, query, start_page) ==
  LET found == {i \in 1..Len(documents) : documents[i].info.id = doc_id}
      c == Command("apply_search_results", query, <<doc_id, start_page>>)
  IN IF found = {}
     THEN Applied(c, ActiveDoc, <<>>, "unknown")
     ELSE LET at == CHOOSE i \in found : \A o \in found : i <= o
              doc == documents[at]
              built == build_search_matches(search_context(doc), query)
              out == apply_search_results([doc EXCEPT !.text_cache = built.cache],
                                          query, built.matches, start_page)
          IN /\ documents' = [documents EXCEPT ![at] = out.doc]
             /\ events' = Append(events, RedrawNeeded(doc.info.id))
             /\ cmd' = c
             /\ result' = BoolResult(out.changed)
             /\ jump_origin' = None
             /\ trace' = Followed(c)
             /\ UNCHANGED <<active, cache_log, mapper, searcher>>

\* What one rendering call leaves: the cache, the keys it stored and whether
\* a render failed.  cache_log remembers every key stored so far and every
\* reference page a key was stored with.
Rendered(c, out, reference_page) ==
  /\ documents' = [documents EXCEPT ![active + 1].render_cache = out.cache]
  /\ cache_log' =
       IF out.stored = {}
       THEN cache_log
       ELSE [inserted |-> cache_log.inserted \cup out.stored,
             refs |-> cache_log.refs \cup {reference_page}]
  /\ cmd' = c
  /\ result' = IF out.failed THEN "Err" ELSE "Ok"
  /\ jump_origin' = None
  /\ UNCHANGED <<active, events, trace, mapper, searcher>>

\* One call of render_page_internal on each cache of `outs`; the backend
\* fails to render the pages of `broken`.
RenderEach(doc, outs, page_index, scale, broken) ==
  UNION {LET call == render_page_internal(
                       [doc EXCEPT !.render_cache = out.cache], page_index,
                       scale, doc.state.dark_mode, doc.state.current_page,
                       page_index \notin broken)
             key == CacheKey(page_index, scale, doc.state.dark_mode)
         IN {[cache |-> cache,
              stored |-> IF call.stored THEN out.stored \cup {key} ELSE out.stored,
              failed |-> out.failed \/ call.ret = "Err"] : cache \in call.caches}
         : out \in outs}

NoRender(doc) == {[cache |-> doc.render_cache, stored |-> {}, failed |-> FALSE]}

render_with_scale(scale, broken) ==
  /\ HasActive
  /\ LET doc == ActiveDoc
     IN \E out \in RenderEach(doc, NoRender(doc), doc.state.current_page,
                              scale, broken) :
          Rendered(Command("render_with_scale", scale, 0), out,
                   doc.state.current_page)

RECURSIVE PrefetchLoop(_, _, _, _, _, _)
PrefetchLoop(doc, outs, offset, range, scale, broken) ==
  IF offset > range
  THEN outs
  ELSE LET current_page == doc.state.current_page
           next == current_page + offset
           after_prev ==
             IF current_page >= offset /\ current_page - offset < doc.info.page_count
             THEN RenderEach(doc, outs, current_page - offset, scale, broken)
             ELSE outs
           after_next ==
             IF next < doc.info.page_count
             THEN RenderEach(doc, after_prev, next, scale, broken)
             ELSE after_prev
       IN PrefetchLoop(doc, after_next, offset + 1, range, scale, broken)

prefetch_neighbors(range, scale, broken) ==
  /\ HasActive
  /\ LET doc == ActiveDoc
     IN \E out \in PrefetchLoop(doc, NoRender(doc), 1, range, scale, broken) :
          Rendered(Command("prefetch_neighbors", range, scale), out,
                   doc.state.current_page)

drain_events ==
  /\ Len(events) > 0
  /\ events' = <<>>
  /\ UNCHANGED <<documents, active, cmd, result, jump_origin, trace, cache_log,
               mapper, searcher>>

\* ------------------------------------------------------------------------
\* Specifications
\* ------------------------------------------------------------------------
\* Session::new followed by open_with of one document whose state the store
\* does not hold (unwrap_or_default), its events not yet drained.
OpenedSessionWith(info, backend, state, script) ==
  /\ documents = <<DocumentInstanceNew(info, backend, state)>>
  /\ active = 0
  /\ events = <<[type |-> "DocumentOpened", doc |-> info.id],
                [type |-> "ActiveDocumentChanged", doc |-> info.id]>>
  /\ cmd = [op |-> "open_with", a |-> 0, b |-> 0, after_jump |-> FALSE]
  /\ result = "ok"
  /\ jump_origin = None
  /\ trace = [script |-> script, step |-> 0, on |-> TRUE]
  /\ cache_log = [inserted |-> {}, refs |-> {}]
  /\ mapper = EventMapperNew
  /\ searcher = None

\* No state was stored for the document: the default state.
OpenedSession(info, backend, script) ==
  OpenedSessionWith(info, backend, DefaultState, script)

\* A backend of n pages without text, search hits or links.
PlainBackend(n) ==
  [page_count |-> n, keyword |-> <<>>,
   search |-> [p \in 1..n |-> Ok(<<>>)],
   text |-> [p \in 1..n |-> Err]]

\* The bounds the specifications put on the model: the event queue is
\* drained before it holds more than MaxEvents events, and the jump stacks
\* of the navigation specifications hold at most MaxHist positions each.
EventRoom == Len(events) < MaxEvents

HistoryRoom ==
  LET jh == documents'[active' + 1].jump_history
  IN Len(jh.back_stack) <= MaxHist /\ Len(jh.forward_stack) <= MaxHist

\* --- scale and viewport commands only -----------------------------------
InitScale == OpenedSession([id |-> 1, page_count |-> 1], PlainBackend(1), <<>>)

ScaleFactors == {<<2, 1>>, <<1, 2>>, <<8, 1>>}

PanDeltas == {One, -One, 1 - One}

NextScale ==
  \/ \E f \in ScaleFactors : EventRoom /\ ScaleBy(f[1], f[2])
  \/ \E dx \in PanDeltas \cup {0}, dy \in {One, -One, 0} :
       EventRoom /\ AdjustViewport(dx, dy)
  \/ drain_events

SpecScale == InitScale /\ [][NextScale]_vars

\* --- navigation with jump history ----------------------------------------
InitNav ==
  OpenedSession([id |-> 1, page_count |-> NavPages], PlainBackend(NavPages), <<>>)

NavCounts == {1, 2}

NextNav ==
  \/ \E count \in NavCounts : EventRoom /\ NextPage(count) /\ HistoryRoom
  \/ \E count \in NavCounts : EventRoom /\ PrevPage(count) /\ HistoryRoom
  \/ \E page \in 0..NavPages : EventRoom /\ GotoPage(page) /\ HistoryRoom
  \/ EventRoom /\ ScaleBy(4, 1)
  \/ EventRoom /\ ResetScale
  \/ \E d \in PanDeltas : EventRoom /\ AdjustViewport(d, 0)
  \/ EventRoom /\ JumpBackward /\ HistoryRoom
  \/ EventRoom /\ JumpForward /\ HistoryRoom
  \/ drain_events

SpecNav == InitNav /\ [][NextNav]_vars

\* --- the navigation scenario of the tests: a 100-page document -----------
Script(op, a, b) == [op |-> op, a |-> a, b |-> b]

NavScript ==
  <<Script("NextPage", 12, 0), Script("JumpBackward", 0, 0),
    Script("JumpForward", 0, 0), Script("GotoPage", 25, 0),
    Script("PrevPage", 5, 0), Script("JumpBackward", 0, 0),
    Script("JumpBackward", 0, 0), Script("JumpBackward", 0, 0)>>

InitScenario ==
  OpenedSession([id |-> 1, page_count |-> TestPageCount],
                PlainBackend(TestPageCount), NavScript)

StepRoom == trace.step < MaxSteps

NextScenario ==
  \/ StepRoom /\ NextPage(12)
  \/ StepRoom /\ PrevPage(5)
  \/ \E page \in {25, 40} : StepRoom /\ GotoPage(page)
  \/ StepRoom /\ JumpBackward
  \/ StepRoom /\ JumpForward

SpecScenario == InitScenario /\ [][NextScenario]_vars

\* --- rendering through the cache ------------------------------------------
\* The document opens on the page its stored state names.
InitCache ==
  \E page \in 0..(CachePages - 1) :
    OpenedSessionWith([id |-> 1, page_count |-> CachePages],
                      PlainBackend(CachePages),
                      [DefaultState EXCEPT !.current_page = page], <<>>)

CacheScales == {One, 2 * One}

\* The page changes at most CacheMoves times; no event is drained meanwhile.
MoveRoom == Len(events) <= CacheMoves + 1

BrokenPages == {{}, {0}}

NextCache ==
  \/ \E scale \in CacheScales, broken \in BrokenPages :
       render_with_scale(scale, broken)
  \/ \E range \in 0..CacheRange, scale \in CacheScales :
       prefetch_neighbors(range, scale, {})
  \/ MoveRoom /\ NextPage(1)

SpecCache == InitCache /\ [][NextCache]_vars

\* --- searching -------------------------------------------------------------
Hit == <<Rect(0, 0, One \div 2, One \div 4)>>

\* The backend of the tests: the keyword is found once on every page.
EveryPageBackend(n) ==
  [page_count |-> n, keyword |-> <<"k">>,
   search |-> [p \in 1..n |-> Ok(<<Hit>>)],
   text |-> [p \in 1..n |-> Err]]

\* A backend with the keyword on pages 2, 5 and 9 only: found by the backend
\* on page 2, by the text scan on page 5 where the backend's search fails,
\* and on page 9 with one rectangle of no area beside the hit's.  On page 7
\* both the backend's search and its text extraction fail.
SparseBackend(n) ==
  [page_count |-> n, keyword |-> <<"k">>,
   search |-> [p \in 1..n |->
                 IF p = 3 THEN Ok(<<Hit>>)
                 ELSE IF p = 6 \/ p = 8 THEN Err
                 ELSE IF p = 10 THEN Ok(<<Hit \o <<Rect(One, 0, One, One)>>>>)
                 ELSE Ok(<<>>)],
   text |-> [p \in 1..n |->
               IF p = 6 THEN Ok([text |-> <<"x", "K", " ">>]) ELSE Err]]

SearchExampleScript ==
  <<Script("GotoPage", 5, 0), Script("Search", <<"K">>, 0),
    Script("SearchNext", 1, 0), Script("SearchPrev", 2, 0)>>

SearchWrapScript ==
  <<Script("Search", <<"K">>, 0), Script("SearchNext", 1, 0),
    Script("SearchNext", 1, 0), Script("SearchNext", 1, 0),
    Script("SearchNext", 1, 0)>>

InitSearch ==
  \/ OpenedSession([id |-> 1, page_count |-> SearchPages],
                   EveryPageBackend(SearchPages), SearchExampleScript)
  \/ OpenedSession([id |-> 1, page_count |-> SearchPages],
                   SparseBackend(SearchPages), SearchWrapScript)

SearchQueries == {<<"K">>, <<"x">>, <<" ">>}

SearchCounts == 0..2

SearchRoom == trace.step < MaxSearchSteps

NextSearch ==
  \/ SearchRoom /\ GotoPage(5)
  \/ \E query \in SearchQueries : SearchRoom /\ Search(query)
  \/ \E count \in SearchCounts : SearchRoom /\ SearchNext(count)
  \/ \E count \in SearchCounts : SearchRoom /\ SearchPrev(count)
  \/ \E query \in {<<"K">>, <<"x">>, <<>>}, start_page \in {0, 4, SearchPages} :
       SearchRoom /\ ApplySearchResults(1, query, start_page)
  \/ SearchRoom /\ ApplySearchResults(2, <<"K">>, 0)

SpecSearch == InitSearch /\ [][NextSearch]_vars

\* --- direct calls on one DocumentInstance --------------------------------
\* One call of a pub method of the DocumentInstance, made by its owner
\* outside Session::apply: no event is emitted.
Called(c, doc, r) == Applied(c, doc, <<>>, r)

\* The command records the length of the query; the query itself is kept by
\* the search state.
CallPerformSearch(query) ==
  /\ HasActive
  /\ LET out == perform_search(ActiveDoc, query)
     IN Called(Command("perform_search", Len(query), 0), out.doc,
               BoolResult(out.changed))

CallNextSearchMatch(count) ==
  /\ HasActive
  /\ LET out == next_search_match(ActiveDoc, count)
     IN Called(Command("next_search_match", count, 0), out.doc, out.ret)

CallPreviousSearchMatch(count) ==
  /\ HasActive
  /\ LET out == previous_search_match(ActiveDoc, count)
     IN Called(Command("previous_search_match", count, 0), out.doc, out.ret)

AdvanceScript == <<Script("perform_search", 1, 0)>>

InitAdvance ==
  OpenedSession([id |-> 1, page_count |-> SearchPages],
                SparseBackend(SearchPages), AdvanceScript)

\* Queries with matches, without a match ("z") and blank.
AdvanceQueries == {<<"K">>, <<"x">>, <<"z">>, <<" ">>}

AdvanceRoom == trace.step < MaxAdvanceSteps

NextAdvance ==
  \/ \E query \in AdvanceQueries : AdvanceRoom /\ CallPerformSearch(query)
  \/ \E count \in SearchCounts : AdvanceRoom /\ CallNextSearchMatch(count)
  \/ \E count \in SearchCounts : AdvanceRoom /\ CallPreviousSearchMatch(count)

SpecAdvance == InitAdvance /\ [][NextAdvance]_vars

\* --- rendering and loading the text of any page index -----------------------
\* One call of render_page_internal for the page index, with the current
\* page as reference page; `rendered` tells whether the backend can render.
CallRenderPageInternal(page_index, scale, rendered) ==
  /\ HasActive
  /\ LET doc == ActiveDoc
         out == render_page_internal(doc, page_index, scale, doc.state.dark_mode,
                                     doc.state.current_page, rendered)
     IN \E cache \in out.caches :
          Called(Command("render_page_internal", page_index, out.called),
                 [doc EXCEPT !.render_cache = cache], out.error)

\* One call of load_cached_page_text on the caches of the document.
CallLoadCachedPageText(page_index) ==
  /\ HasActive
  /\ LET doc == ActiveDoc
         out == load_cached_page_text(page_index, doc.info, doc.backend,
                                      doc.text_cache)
     IN Called(Command("load_cached_page_text", page_index, out.called),
               [doc EXCEPT !.text_cache = out.cache], out.error)

\* A backend whose pages have a text, but for page 1 whose text extraction
\* fails.
RangeBackend(n) ==
  [page_count |-> n, keyword |-> <<>>,
   search |-> [p \in 1..n |-> Ok(<<>>)],
   text |-> [p \in 1..n |-> IF p = 2 THEN Err ELSE Ok([text |-> <<"a">>])]]

InitRange ==
  OpenedSession([id |-> 1, page_count |-> RangePages], RangeBackend(RangePages),
                <<>>)

\* Page indices within the document and the two past its end.
RangeIndices == 0..(RangePages + 1)

NextRange ==
  \/ \E page_index \in RangeIndices, rendered \in BOOLEAN :
       CallRenderPageInternal(page_index, One, rendered)
  \/ \E page_index \in RangeIndices : CallLoadCachedPageText(page_index)

SpecRange == InitRange /\ [][NextRange]_vars

\* --- opening with a stored state, reloading ----------------------------------
\* map.retain(|_, page| *page < page_count)
\* Variant: a mark on the page `page_count` is kept.
RetainPagesUpTo(map, page_count) ==
  [k \in {k \in DOMAIN map : map[k] <= page_count} |-> map[k]]

RetainPages(map, page_count) ==
  [k \in {k \in DOMAIN map : map[k] < page_count} |-> map[k]]

\* Variant: the search state is kept as it was, not rebuilt.
reload_keeping_search(doc, info, backend) ==
  LET previous_query == IF IsSome(doc.search_state)
                        THEN Some(Unwrap(doc.search_state).query) ELSE None
      current_page == IF info.page_count = 0 THEN 0
                      ELSE IF doc.state.current_page >= info.page_count
                      THEN info.page_count - 1
                      ELSE doc.state.current_page
      cleared == [doc EXCEPT
                    !.info = info, !.backend = backend,
                    !.render_cache = {}, !.text_cache = {},
                    !.search_state = None,
                    !.link_state = None,
                    !.selection_state = None,
                    !.visual_cursor = None,
                    !.visual_column_hint = One \div 2,
                    !.last_selection = None,
                    !.state.current_page = current_page,
                    !.state.marks = RetainPages(doc.state.marks, info.page_count),
                    !.state.named_marks =
                       RetainPages(doc.state.named_marks, info.page_count),
                    !.state.viewport =
                       IF doc.state.scale <= One + Eps
                       THEN ViewportReset(doc.state.viewport)
                       ELSE ViewportClamp(doc.state.viewport)]
      searched == [cleared EXCEPT !.search_state = doc.search_state]
  IN sync_jump_position(searched)

\* Variant: the reload starts the jump history anew.
reload_clearing_history(doc, info, backend) ==
  LET previous_query == IF IsSome(doc.search_state)
                        THEN Some(Unwrap(doc.search_state).query) ELSE None
      current_page == IF info.page_count = 0 THEN 0
                      ELSE IF doc.state.current_page >= info.page_count
                      THEN info.page_count - 1
                      ELSE doc.state.current_page
      cleared == [doc EXCEPT
                    !.info = info, !.backend = backend,
                    !.render_cache = {}, !.text_cache = {},
                    !.search_state = None,
                    !.link_state = None,
                    !.selection_state = None,
                    !.visual_cursor = None,
                    !.visual_column_hint = One \div 2,
                    !.last_selection = None,
                    !.state.current_page = current_page,
                    !.state.marks = RetainPages(doc.state.marks, info.page_count),
                    !.state.named_marks =
                       RetainPages(doc.state.named_marks, info.page_count),
                    !.state.viewport =
                       IF doc.state.scale <= One + Eps
                       THEN ViewportReset(doc.state.viewport)
                       ELSE ViewportClamp(doc.state.viewport)]
      searched == IF IsSome(previous_query)
                  THEN perform_search(cleared, Unwrap(previous_query)).doc
                  ELSE cleared
  IN [sync_jump_position(searched) EXCEPT !.jump_history.back_stack = <<>>,
                                          !.jump_history.forward_stack = <<>>]

\* DocumentInstance::reload
reload(doc, info, backend) ==
  LET previous_query == IF IsSome(doc.search_state)
                        THEN Some(Unwrap(doc.search_state).query) ELSE None
      current_page == IF info.page_count = 0 THEN 0
                      ELSE IF doc.state.current_page >= info.page_count
                      THEN info.page_count - 1
                      ELSE doc.state.current_page
      cleared == [doc EXCEPT
                    !.info = info, !.backend = backend,
                    !.render_cache = {}, !.text_cache = {},
                    !.search_state = None,
                    !.link_state = None,
                    !.selection_state = None,
                    !.visual_cursor = None,
                    !.visual_column_hint = One \div 2,
                    !.last_selection = None,
                    !.state.current_page = current_page,
                    !.state.marks = RetainPages(doc.state.marks, info.page_count),
                    !.state.named_marks =
                       RetainPages(doc.state.named_marks, info.page_count),
                    !.state.viewport =
                       IF doc.state.scale <= One + Eps
                       THEN ViewportReset(doc.state.viewport)
                       ELSE ViewportClamp(doc.state.viewport)]
      searched == IF IsSome(previous_query)
                  THEN perform_search(cleared, Unwrap(previous_query)).doc
                  ELSE cleared
  IN sync_jump_position(searched)

\* Session::reload_document: the provider opens the path again and finds a
\* document of `page_count` pages.
reload_document(doc_id, page_count) ==
  LET found == {i \in 1..Len(documents) : documents[i].info.id = doc_id}
      c == Command("reload_document", doc_id, page_count)
  IN IF found = {}
     THEN Applied(c, ActiveDoc, <<>>, "false")
     ELSE LET at == CHOOSE i \in found : \A o \in found : i <= o
              doc == documents[at]
          IN /\ documents' =
                  [documents EXCEPT
                     ![at] = reload(doc, [doc.info EXCEPT !.page_count = page_count],
                                    PlainBackend(page_count))]
             /\ events' = Append(events, RedrawNeeded(doc_id))
             /\ cmd' = c
             /\ result' = "true"
             /\ jump_origin' = None
             /\ trace' = Followed(c)
             /\ UNCHANGED <<active, cache_log, mapper, searcher>>

\* The states the StateStore may hold for the document: the page the reader
\* was on when the state was saved, in a file of up to OpenPages + 2 pages.
StoredStates ==
  {[DefaultState EXCEPT !.current_page = page] : page \in 0..(OpenPages + 1)}

OpenScript == <<Script("NextPage", 1, 0)>>

InitOpen ==
  \E state \in StoredStates, page_count \in 1..OpenPages :
    OpenedSessionWith([id |-> 1, page_count |-> page_count],
                      PlainBackend(page_count), state, OpenScript)

OpenRoom == trace.step < MaxOpenSteps

OpenCounts == {0, 1, OpenPages + 1}

NextOpen ==
  \/ \E count \in OpenCounts : OpenRoom /\ NextPage(count)
  \/ \E count \in OpenCounts : OpenRoom /\ PrevPage(count)
  \/ \E page \in 0..(OpenPages + 1) : OpenRoom /\ GotoPage(page)
  \/ \E page_count \in 1..OpenPages : OpenRoom /\ reload_document(1, page_count)
  \/ OpenRoom /\ reload_document(2, OpenPages)

SpecOpen == InitOpen /\ [][NextOpen]_vars

\* --- link mode ----------------------------------------------------------------
FollowExternalLink(target) == [type |-> "FollowExternalLink", target |-> target]

EnterLinkMode ==
  /\ HasActive
  /\ LET out == start_link_mode(ActiveDoc)
     IN IF out.ok
        THEN Applied(Command("EnterLinkMode", 0, 0), out.doc,
                     <<RedrawNeeded(ActiveDoc.info.id)>>, "Ok")
        ELSE Applied(Command("EnterLinkMode", 0, 0), ActiveDoc, <<>>, "Err")

LeaveLinkMode ==
  /\ HasActive
  /\ Applied(Command("LeaveLinkMode", 0, 0), clear_link_state(ActiveDoc),
             <<RedrawNeeded(ActiveDoc.info.id)>>, "Ok")

LinkNext(count) ==
  /\ HasActive
  /\ LET out == next_link(ActiveDoc, Max(count, 1))
     IN Applied(Command("LinkNext", count, 0), out.doc,
                IF out.ret /= "None"
                THEN <<RedrawNeeded(ActiveDoc.info.id)>> ELSE <<>>,
                out.ret)

LinkPrev(count) ==
  /\ HasActive
  /\ LET out == previous_link(ActiveDoc, Max(count, 1))
     IN Applied(Command("LinkPrev", count, 0), out.doc,
                IF out.ret /= "None"
                THEN <<RedrawNeeded(ActiveDoc.info.id)>> ELSE <<>>,
                out.ret)

ActivateLink ==
  /\ HasActive
  /\ LET out == activate_link(ActiveDoc)
     IN Applied(Command("ActivateLink", 0, 0), out.doc,
                IF out.ret.variant = "Navigated"
                THEN <<RedrawNeeded(ActiveDoc.info.id)>>
                ELSE IF out.ret.variant = "External"
                THEN <<RedrawNeeded(ActiveDoc.info.id),
                       FollowExternalLink(out.ret.target)>>
                ELSE <<>>,
                out.ret.variant)

CallNextLink(count) ==
  /\ HasActive
  /\ LET out == next_link(ActiveDoc, count)
     IN Called(Command("next_link", count, 0), out.doc, out.ret)

CallPreviousLink(count) ==
  /\ HasActive
  /\ LET out == previous_link(ActiveDoc, count)
     IN Called(Command("previous_link", count, 0), out.doc, out.ret)

\* A backend with the link definitions `links`, one result per page.
LinkBackend(links) ==
  [page_count |-> Len(links), keyword |-> <<>>,
   search |-> [p \in 1..Len(links) |-> Ok(<<>>)],
   text |-> [p \in 1..Len(links) |-> Ok([text |-> <<>>])],
   links |-> links]

LinkRect == Rect(One \div 8, One \div 8, One \div 4, One \div 4)

\* The links of tests::link_mode_navigation_and_activation.
ActivationLinks ==
  <<Ok(<<LinkDefinition(<<LinkRect>>, GoTo(1))>>),
    Ok(<<LinkDefinition(<<LinkRect>>, Uri("https://example.com"))>>),
    Ok(<<>>)>>

\* The links of tests::link_mode_skips_links_before_current_page.
SkippingLinks ==
  <<Ok(<<LinkDefinition(<<LinkRect>>, GoTo(0))>>),
    Ok(<<>>),
    Ok(<<LinkDefinition(<<LinkRect>>, GoTo(2))>>)>>

\* An unsupported link and a link to a page past the end on page 0, a link
\* without a valid rectangle on page 1, no link on page 2.
OddLinks ==
  <<Ok(<<LinkDefinition(<<LinkRect>>, Unsupported),
         LinkDefinition(<<LinkRect>>, GoTo(LinkPages + 4))>>),
    Ok(<<LinkDefinition(<<Rect(One, 0, One, One)>>, GoTo(2))>>),
    Ok(<<>>)>>

\* The backend's page_links call fails for page 1.
FailingLinks ==
  <<Ok(<<LinkDefinition(<<LinkRect>>, GoTo(2))>>),
    Err,
    Ok(<<LinkDefinition(<<LinkRect>>, Uri("https://example.com"))>>)>>

LinkScript == <<Script("EnterLinkMode", 0, 0)>>

InitLink ==
  \E links \in {ActivationLinks, SkippingLinks, OddLinks, FailingLinks},
     page \in 0..(LinkPages - 1) :
    OpenedSessionWith([id |-> 1, page_count |-> LinkPages], LinkBackend(links),
                      [DefaultState EXCEPT !.current_page = page], LinkScript)

LinkRoom == trace.step < MaxLinkSteps

LinkCounts == 0..2

NextLink ==
  \/ LinkRoom /\ EnterLinkMode
  \/ LinkRoom /\ LeaveLinkMode
  \/ \E count \in LinkCounts : LinkRoom /\ LinkNext(count)
  \/ \E count \in LinkCounts : LinkRoom /\ LinkPrev(count)
  \/ LinkRoom /\ ActivateLink
  \/ \E count \in LinkCounts : LinkRoom /\ CallNextLink(count)
  \/ \E count \in LinkCounts : LinkRoom /\ CallPreviousLink(count)
  \/ LinkRoom /\ NextPage(1)

SpecLink == InitLink /\ [][NextLink]_vars

\* --- visual mode and selection -------------------------------------------------
\* A handler around a function returning Result<bool>: an error is returned
\* to the caller of apply, a true emits RedrawNeeded.
Handled(c, out) ==
  Applied(c, out.doc,
          IF out.ok /\ out.val THEN <<RedrawNeeded(ActiveDoc.info.id)>> ELSE <<>>,
          IF out.ok THEN BoolResult(out.val) ELSE "Err")

EnterVisualMode ==
  /\ HasActive
  /\ \E out \in {ensure_visual_cursor(ActiveDoc)} :
       Handled(Command("EnterVisualMode", 0, 0), out)

StartSelection ==
  /\ HasActive
  /\ \E out \in {start_selection(ActiveDoc)} :
       Handled(Command("StartSelection", 0, 0), out)

MoveVisualCursor(motion, count) ==
  /\ HasActive
  /\ \E out \in {move_visual_cursor(ActiveDoc, motion, Max(count, 1))} :
       Handled(Command("MoveVisualCursor", motion, count), out)

ClearSelection ==
  /\ HasActive
  /\ LET out == clear_selection_state(ActiveDoc, TRUE)
     IN Handled(Command("ClearSelection", 0, 0),
                [doc |-> out.doc, ok |-> TRUE, val |-> out.changed])

LeaveVisualMode ==
  /\ HasActive
  /\ LET out == leave_visual_mode(ActiveDoc, TRUE)
     IN Handled(Command("LeaveVisualMode", 0, 0),
                [doc |-> out.doc, ok |-> TRUE, val |-> out.changed])

RestoreSelection ==
  /\ HasActive
  /\ \E out \in {restore_last_selection(ActiveDoc)} :
       Handled(Command("RestoreSelection", 0, 0), out)

SwapVisualCursor ==
  /\ HasActive
  /\ LET out == swap_visual_cursor(ActiveDoc)
     IN Handled(Command("SwapVisualCursor", 0, 0),
                [doc |-> out.doc, ok |-> TRUE, val |-> out.changed])

\* Session::selection_text: the text is returned to the caller; the pages
\* read on the way stay in the text cache.
SessionSelectionText ==
  /\ HasActive
  /\ LET doc == ActiveDoc
         out == extract_selection_text(doc, normalized(Unwrap(doc.selection_state)))
     IN Called(Command("selection_text", 0, selection_text(doc)),
               IF IsSome(doc.selection_state) THEN out.doc ELSE doc,
               IF selection_text(doc) = None THEN "None" ELSE "Some")

\* A page text of one glyph per character; a character of several bytes is
\* given as the sequence of its bytes.
RECURSIVE GlyphsFrom(_, _)
GlyphsFrom(chars, offset) ==
  IF Len(chars) = 0 THEN <<>>
  ELSE <<TextGlyph(offset, offset + Len(chars[1]), Rect(0, 0, 0, 0))>>
       \o GlyphsFrom(Tail(chars), offset + Len(chars[1]))

RECURSIVE Concat(_)
Concat(seqs) == IF Len(seqs) = 0 THEN <<>> ELSE seqs[1] \o Concat(Tail(seqs))

PageOfChars(chars) == PageTextNew(Concat(chars), GlyphsFrom(chars, 0))

\* The characters of five pages: "ab", "e-acute" (two bytes), "cd", a page without
\* text, "e".
SelectTexts ==
  <<<<<<"a">>, <<"b">>>>, <<<<"C3", "A9">>>>, <<<<"c">>, <<"d">>>>, <<>>,
    <<<<"e">>>>>>

SelectPages == Len(SelectTexts)

SelectBackend ==
  [page_count |-> SelectPages, keyword |-> <<>>,
   search |-> [p \in 1..SelectPages |-> Ok(<<>>)],
   text |-> [p \in 1..SelectPages |-> Ok(PageOfChars(SelectTexts[p]))]]

SelectScript == <<Script("StartSelection", 0, 0)>>

InitSelect ==
  \E page \in {0, 1, 2} :
    OpenedSessionWith([id |-> 1, page_count |-> SelectPages], SelectBackend,
                      [DefaultState EXCEPT !.current_page = page], SelectScript)

SelectRoom == trace.step < MaxSelectSteps

SelectMotions ==
  {<<"Right", 1>>, <<"Right", 2>>, <<"Left", 1>>, <<"PageForward", 1>>,
   <<"PageForward", 2>>, <<"PageBackward", 1>>, <<"DocumentStart", 0>>,
   <<"DocumentEnd", 0>>}

NextSelect ==
  \/ SelectRoom /\ EnterVisualMode
  \/ SelectRoom /\ StartSelection
  \/ \E m \in SelectMotions : SelectRoom /\ MoveVisualCursor(m[1], m[2])
  \/ SelectRoom /\ ClearSelection
  \/ SelectRoom /\ LeaveVisualMode
  \/ SelectRoom /\ RestoreSelection
  \/ SelectRoom /\ SwapVisualCursor
  \/ SelectRoom /\ SessionSelectionText

SpecSelect == InitSelect /\ [][NextSelect]_vars

\* --- marks, searching and reloading ----------------------------------------------
\* HashMap::insert on a map from keys to pages.
Insert(map, key, page) ==
  [k \in DOMAIN map \cup {key} |-> IF k = key THEN page ELSE map[k]]

add_mark(doc, mark, page) ==
  [doc EXCEPT !.state.marks = Insert(doc.state.marks, mark, page)]

\* Variant: a key without a mark gives page 0.
get_page_from_mark_or_first(doc, mark) ==
  IF mark \in DOMAIN doc.state.marks THEN Some(doc.state.marks[mark]) ELSE Some(0)

get_page_from_mark(doc, mark) ==
  IF mark \in DOMAIN doc.state.marks THEN Some(doc.state.marks[mark]) ELSE None

add_named_mark(doc, name, page) ==
  [doc EXCEPT !.state.named_marks = Insert(doc.state.named_marks, name, page)]

named_mark_page(doc, name) ==
  IF name \in DOMAIN doc.state.named_marks
  THEN Some(doc.state.named_marks[name]) ELSE None

\* A command about the mark `key`.
Keyed(op, key) ==
  [op |-> op, a |-> 0, b |-> 0, after_jump |-> result = "recorded", key |-> key]

PutMark(key) ==
  /\ HasActive
  /\ Applied(Keyed("PutMark", key),
             add_mark(ActiveDoc, key, ActiveDoc.state.current_page), <<>>, "put")

SaveNamedMark(name) ==
  /\ HasActive
  /\ Applied(Keyed("SaveNamedMark", name),
             add_named_mark(ActiveDoc, name, ActiveDoc.state.current_page),
             <<>>, "put")

\* The body GotoMark and GotoNamedMark share: `page` is the mark's page, None
\* if the key has no mark.
GotoMarked(c, page) ==
  LET doc == ActiveDoc
      previous == current_position(doc)
      next == Min(Unwrap(page), LastPage(doc))
      moved == [doc EXCEPT !.state.current_page = next,
                           !.state.viewport = ViewportReset(doc.state.viewport)]
  IN IF ~IsSome(page) THEN Applied(c, doc, <<>>, "no mark")
     ELSE IF next /= doc.state.current_page
     THEN Applied(c, record_jump_from(moved, previous),
                  <<RedrawNeeded(doc.info.id)>>, "recorded")
     ELSE Applied(c, doc, <<>>, "unchanged")

GotoMark(key) ==
  /\ HasActive
  /\ GotoMarked(Keyed("GotoMark", key), get_page_from_mark(ActiveDoc, key))

GotoNamedMark(name) ==
  /\ HasActive
  /\ GotoMarked(Keyed("GotoNamedMark", name), named_mark_page(ActiveDoc, name))

\* Session::reload_document: the provider opens the path again and finds the
\* document that `backend` serves.
ReloadDocument(doc_id, backend) ==
  LET found == {i \in 1..Len(documents) : documents[i].info.id = doc_id}
      c == Command("reload_document", doc_id, backend.page_count)
  IN IF found = {}
     THEN Applied(c, ActiveDoc, <<>>, "false")
     ELSE LET at == CHOOSE i \in found : \A o \in found : i <= o
              doc == documents[at]
          IN /\ documents' =
                  [documents EXCEPT
                     ![at] = reload(doc, [doc.info EXCEPT
                                            !.page_count = backend.page_count],
                                    backend)]
             /\ events' = Append(events, RedrawNeeded(doc_id))
             /\ cmd' = c
             /\ result' = "true"
             /\ jump_origin' = None
             /\ trace' = Followed(c)
             /\ UNCHANGED <<active, cache_log, mapper, searcher>>

MarkKeys == {"a", "b"}

MarkNames == {"foo"}

\* The documents the provider may find on a reload: without a hit, with a
\* hit on every page, with a hit on page 2 only.
ReloadBackends ==
  {PlainBackend(n) : n \in {0, 2}}
    \cup {EveryPageBackend(n) : n \in {1, MarkPages}}
    \cup {SparseBackend(MarkPages)}

\* The queries a caller of Session::apply_search_results may pass.
AppliedQueries == {<<" ", "K">>, <<" ">>}

\* Two marks are put, on page 0 and on page 3, before the document is found
\* with two pages.
MarkScript ==
  <<Script("PutMark", 0, 0), Script("GotoPage", 3, 0), Script("PutMark", 0, 0),
    Script("reload_document", 1, 2)>>

InitMarks ==
  OpenedSession([id |-> 1, page_count |-> MarkPages],
                EveryPageBackend(MarkPages), MarkScript)

MarkRoom == trace.step < MaxMarkSteps

NextMarks ==
  \/ \E key \in MarkKeys : MarkRoom /\ PutMark(key)
  \/ \E key \in MarkKeys : MarkRoom /\ GotoMark(key)
  \/ \E name \in MarkNames : MarkRoom /\ SaveNamedMark(name)
  \/ \E name \in MarkNames : MarkRoom /\ GotoNamedMark(name)
  \/ \E page \in 0..(MarkPages - 1) : MarkRoom /\ GotoPage(page)
  \/ MarkRoom /\ Search(<<"K">>)
  \/ \E query \in AppliedQueries :
       MarkRoom /\ HasActive /\ ApplySearchResults(1, query, 0)
  \/ \E backend \in ReloadBackends : MarkRoom /\ ReloadDocument(1, backend)

SpecMarks == InitMarks /\ [][NextMarks]_vars

\* --- a session with two documents ---------------------------------------------------
ActiveDocumentChanged(id) == [type |-> "ActiveDocumentChanged", doc |-> id]

SwitchDocument(index) ==
  LET c == Command("SwitchDocument", index, 0)
  IN /\ active' = IF index < Len(documents) THEN index ELSE active
     /\ events' = IF index < Len(documents)
                  THEN Append(events, ActiveDocumentChanged(documents[index + 1].info.id))
                  ELSE events
     /\ cmd' = c
     /\ result' = IF index < Len(documents) THEN "switched" ELSE "unchanged"
     /\ jump_origin' = None
     /\ trace' = Followed(c)
     /\ UNCHANGED <<documents, cache_log, mapper, searcher>>

ToggleDarkMode ==
  /\ HasActive
  /\ Applied(Command("ToggleDarkMode", 0, 0),
             [ActiveDoc EXCEPT !.state.dark_mode = ~ActiveDoc.state.dark_mode],
             <<RedrawNeeded(ActiveDoc.info.id)>>, "toggled")

\* Variant: the newest event stays in the queue.
drain_all_but_newest(queue) ==
  IF Len(queue) = 0 THEN [returned |-> <<>>, left |-> <<>>]
  ELSE [returned |-> Front(queue), left |-> <<Last(queue)>>]

\* events.drain(..).collect(): the Vec returned and the queue left.
drain(queue) == [returned |-> queue, left |-> <<>>]

\* Session::drain_events, the Vec it returns being recorded with the command.
DrainEvents ==
  LET out == drain(events)
      c == [op |-> "drain_events", a |-> 0, b |-> 0, after_jump |-> FALSE,
            returned |-> out.returned]
  IN /\ events' = out.left
     /\ cmd' = c
     /\ result' = "drained"
     /\ jump_origin' = None
     /\ trace' = Followed(c)
     /\ UNCHANGED <<documents, active, cache_log, mapper, searcher>>

\* Three pages of text with the keyword and a link on pages 0 and 1.
FirstBackend ==
  [page_count |-> LinkPages, keyword |-> <<"k">>,
   search |-> [p \in 1..LinkPages |-> Ok(<<Hit>>)],
   text |-> [p \in 1..LinkPages |-> Ok(PageOfChars(SelectTexts[p]))],
   links |-> ActivationLinks]

SessionScript == <<Script("SwitchDocument", 0, 0), Script("NextPage", 1, 0)>>

\* Session::new followed by open_with of two documents, the second of which
\* is the active one.
InitSession ==
  /\ documents = <<DocumentInstanceNew([id |-> 1, page_count |-> LinkPages],
                                      FirstBackend, DefaultState),
                   DocumentInstanceNew([id |-> 2, page_count |-> SelectPages],
                                      SelectBackend, DefaultState)>>
  /\ active = 1
  /\ events = <<[type |-> "DocumentOpened", doc |-> 1], ActiveDocumentChanged(1),
                [type |-> "DocumentOpened", doc |-> 2], ActiveDocumentChanged(2)>>
  /\ cmd = [op |-> "open_with", a |-> 0, b |-> 0, after_jump |-> FALSE]
  /\ result = "ok"
  /\ jump_origin = None
  /\ trace = [script |-> SessionScript, step |-> 0, on |-> TRUE]
  /\ cache_log = [inserted |-> {}, refs |-> {}]
  /\ mapper = EventMapperNew
  /\ searcher = None

SessionRoom == trace.step < MaxSessionSteps

NextSession ==
  \/ \E index \in 0..2 : SessionRoom /\ SwitchDocument(index)
  \/ SessionRoom /\ DrainEvents
  \/ SessionRoom /\ NextPage(1)
  \/ SessionRoom /\ GotoPage(2)
  \/ SessionRoom /\ ScaleBy(2, 1)
  \/ SessionRoom /\ AdjustViewport(One, 0)
  \/ SessionRoom /\ PutMark("a")
  \/ SessionRoom /\ GotoMark("a")
  \/ SessionRoom /\ Search(<<"K">>)
  \/ SessionRoom /\ SearchNext(1)
  \/ SessionRoom /\ EnterLinkMode
  \/ SessionRoom /\ LinkNext(1)
  \/ SessionRoom /\ ActivateLink
  \/ SessionRoom /\ StartSelection
  \/ SessionRoom /\ MoveVisualCursor("Right", 1)
  \/ SessionRoom /\ ToggleDarkMode
  \/ SessionRoom /\ JumpBackward

SpecSession == InitSession /\ [][NextSession]_vars

\* --- the jump history at its capacity --------------------------------------------
HistPages == 2 * (JUMP_HISTORY_CAPACITY + HistExtra) + 1

InitHistory ==
  OpenedSession([id |-> 1, page_count |-> HistPages], PlainBackend(HistPages), <<>>)

\* JumpHistory::push_forward called on the history of the active document
\* with the position of the given page.
CallPushForward(page) ==
  /\ HasActive
  /\ LET position == [current_position(ActiveDoc) EXCEPT !.page = page]
     IN Applied(Command("push_forward", page, 0),
                [ActiveDoc EXCEPT !.jump_history = push_forward(@, position)],
                <<>>, "pushed")

\* The direct calls push the pages in turn, before any command of the session.
DirectPushes == cmd.op \in {"open_with", "push_forward"}

NextDirectPage ==
  LET stack == ActiveDoc.jump_history.forward_stack
  IN IF Len(stack) = 0 THEN 0 ELSE Last(stack).page + 1

NextHistory ==
  \/ \E page \in 0..(JUMP_HISTORY_CAPACITY + HistExtra) :
       DirectPushes /\ page = NextDirectPage /\ CallPushForward(page)
  \/ EventRoom /\ cmd.op # "push_forward" /\ NextPage(2)
  \/ EventRoom /\ cmd.op # "push_forward" /\ JumpBackward
  \/ EventRoom /\ cmd.op # "push_forward" /\ JumpForward
  \/ drain_events

SpecHistory == InitHistory /\ [][NextHistory]_vars

\* --- pages of several lines ---------------------------------------------------------
\* The lines of four pages, each line given by its number of glyphs: a page
\* of two lines (2 and 1 glyphs), another one (1 and 2 glyphs), a page
\* without text and a page of one line.
LineTexts == <<<<2, 1>>, <<1, 2>>, <<>>, <<2>>>>

LinePages == Len(LineTexts)

GlyphSize == One \div 8

\* The glyphs of a line: one byte each, side by side, line below line.
LineGlyphs(line, n, offset) ==
  [j \in 1..n |->
     TextGlyph(offset + j - 1, offset + j,
               Rect((j - 1) * GlyphSize, line * GlyphSize,
                    j * GlyphSize, (line + 1) * GlyphSize))]

RECURSIVE GlyphsOfLines(_, _, _)
GlyphsOfLines(lines, line, offset) ==
  IF line >= Len(lines) THEN <<>>
  ELSE LineGlyphs(line, lines[line + 1], offset)
       \o GlyphsOfLines(lines, line + 1, offset + lines[line + 1])

PageOfLines(lines) ==
  LET glyphs == GlyphsOfLines(lines, 0, 0)
  IN PageTextNew([i \in 1..Len(glyphs) |-> "x"], glyphs)

LineBackend ==
  [page_count |-> LinePages, keyword |-> <<>>,
   search |-> [p \in 1..LinePages |-> Ok(<<>>)],
   text |-> [p \in 1..LinePages |-> Ok(PageOfLines(LineTexts[p]))]]

LineScript == <<Script("MoveVisualCursor", "Up", 1)>>

InitLines ==
  \E page \in 0..(LinePages - 1) :
    OpenedSessionWith([id |-> 1, page_count |-> LinePages], LineBackend,
                      [DefaultState EXCEPT !.current_page = page], LineScript)

LineRoom == trace.step < MaxLineSteps

LineMotions ==
  {<<"Up", 1>>, <<"Up", 2>>, <<"Down", 1>>, <<"Down", 2>>, <<"Right", 1>>,
   <<"Left", 1>>}

NextLines ==
  \/ LineRoom /\ StartSelection
  \/ \E m \in LineMotions : LineRoom /\ MoveVisualCursor(m[1], m[2])

SpecLines == InitLines /\ [][NextLines]_vars

\* --- the keys of the Normal mode ------------------------------------------------------
\* EventMapper::map_event on the mapper of the terminal, in Normal mode; the
\* event and the UiEvent returned are recorded with the command.
MapEvent(event) ==
  /\ mapper.mode = "Normal"
  /\ LET mapped == map_event_normal(mapper, event)
         c == [op |-> "map_event", a |-> 0, b |-> 0, after_jump |-> FALSE,
               event |-> event, out |-> mapped.out]
     IN /\ mapper' = mapped.mapper
        /\ cmd' = c
        /\ result' = mapped.out.type
        /\ jump_origin' = None
        /\ trace' = Followed(c)
        /\ UNCHANGED <<documents, active, events, cache_log, searcher>>

ResizeEvent == [kind |-> "Resize", code |-> "", mods |-> "NONE"]

KeyInputs ==
  {KeyEvent(c, "NONE") :
     c \in {"0", "1", "2", "j", "k", "n", "h", "q", "m", "'", "a", "d", "/"}}
  \cup {KeyEvent("N", "SHIFT"), KeyEvent("Right", "CONTROL"), ResizeEvent}

KeyScript == <<Script("map_event", 0, 0)>>

InitKeys == OpenedSession([id |-> 1, page_count |-> 1], PlainBackend(1), KeyScript)

KeyRoom == trace.step < MaxKeySteps

NextKeys == \E event \in KeyInputs : KeyRoom /\ MapEvent(event)

SpecKeys == InitKeys /\ [][NextKeys]_vars

\* --- every motion of the visual mode ---------------------------------------------------
\* Three pages, each given by its lines and each line by its chars (a char
\* by its bytes): "a b" over "c", a page without text, and "e-acute _" over " d".
VisualTexts ==
  <<<<<<<<"a">>, <<" ">>, <<"b">>>>, <<<<"c">>>>>>,
    <<>>,
    <<<<<<"C3", "A9">>, <<"_">>>>, <<<<" ">>, <<"d">>>>>>>>

VisualPages == Len(VisualTexts)

\* The glyphs of a line of chars, side by side, line below line.
RECURSIVE CharGlyphs(_, _, _, _)
CharGlyphs(chars, line, column, offset) ==
  IF Len(chars) = 0 THEN <<>>
  ELSE <<TextGlyph(offset, offset + Len(chars[1]),
                   Rect(column * GlyphSize, line * GlyphSize,
                        (column + 1) * GlyphSize, (line + 1) * GlyphSize))>>
       \o CharGlyphs(Tail(chars), line, column + 1, offset + Len(chars[1]))

RECURSIVE GlyphsOfTextLines(_, _, _)
GlyphsOfTextLines(lines, line, offset) ==
  IF line >= Len(lines) THEN <<>>
  ELSE CharGlyphs(lines[line + 1], line, 0, offset)
       \o GlyphsOfTextLines(lines, line + 1,
                            offset + Len(Concat(lines[line + 1])))

PageOfTextLines(lines) ==
  PageTextNew(Concat(Concat(lines)), GlyphsOfTextLines(lines, 0, 0))

VisualBackend ==
  [page_count |-> VisualPages, keyword |-> <<>>,
   search |-> [p \in 1..VisualPages |-> Ok(<<>>)],
   text |-> [p \in 1..VisualPages |-> Ok(PageOfTextLines(VisualTexts[p]))]]

VisualScript == <<Script("EnterVisualMode", 0, 0)>>

InitVisual ==
  \E page \in 0..(VisualPages - 1) :
    OpenedSessionWith([id |-> 1, page_count |-> VisualPages], VisualBackend,
                      [DefaultState EXCEPT !.current_page = page], VisualScript)

VisualRoom == trace.step < MaxVisualSteps

VisualMotions ==
  {<<m, 1>> : m \in {"Left", "Right", "WordForward", "WordBackward", "LineStart",
                     "LineEnd", "Up", "Down", "PageForward", "PageBackward",
                     "DocumentStart", "DocumentEnd"}}
  \cup {<<"Right", 2>>, <<"WordForward", 2>>, <<"Down", 3>>, <<"DocumentStart", 2>>,
        <<"DocumentStart", 9>>, <<"PageForward", 5>>}

NextVisual ==
  \/ VisualRoom /\ EnterVisualMode
  \/ VisualRoom /\ LeaveVisualMode
  \/ \E page \in 0..(VisualPages - 1) : VisualRoom /\ GotoPage(page)
  \/ VisualRoom /\ ScaleBy(2, 1)
  \/ VisualRoom /\ AdjustViewport(One, 0)
  \/ VisualRoom /\ StartSelection
  \/ \E m \in VisualMotions : VisualRoom /\ MoveVisualCursor(m[1], m[2])
  \/ VisualRoom /\ ClearSelection
  \/ VisualRoom /\ RestoreSelection
  \/ VisualRoom /\ SwapVisualCursor

SpecVisual == InitVisual /\ [][NextVisual]_vars

\* --- opening and closing the documents of a session ------------------------------
DocumentOpened(id) == [type |-> "DocumentOpened", doc |-> id]

DocumentClosed(id) == [type |-> "DocumentClosed", doc |-> id]

\* Session::active(): the id of the document the active index designates.
SessionActive == IF HasActive THEN Some(ActiveDoc.info.id) ELSE None

DocumentIds == {documents[k].info.id : k \in 1..Len(documents)}

\* Vec::remove(index).
RemoveAt(seq, index) == SubSeq(seq, 1, index) \o SubSeq(seq, index + 2, Len(seq))

\* Session::open_with of the file whose path gives `id`: `opened` tells
\* whether provider.open and store.load succeeded, `stored` is the state
\* store.load returned (None when the store holds none).
OpenWith(id, opened, stored) ==
  LET c == Command("open_with", id, 0)
      info == [id |-> id, page_count |-> ClosePages]
      doc == DocumentInstanceNew(info, PlainBackend(ClosePages),
                                 UnwrapOr(stored, DefaultState))
  IN /\ documents' = IF opened THEN Append(documents, doc) ELSE documents
     /\ active' = IF opened THEN SaturatingSub(Len(documents) + 1, 1) ELSE active
     /\ events' = IF opened
                  THEN events \o <<DocumentOpened(id), ActiveDocumentChanged(id)>>
                  ELSE events
     /\ cmd' = c
     /\ result' = IF opened THEN "ok" ELSE "err"
     /\ jump_origin' = None
     /\ trace' = Followed(c)
     /\ UNCHANGED <<cache_log, mapper, searcher>>

\* Session::apply(Command::CloseDocument { index }): `saved` tells whether
\* store.save succeeded.
CloseDocument(index, saved) ==
  LET c == Command("CloseDocument", index, 0)
      left == RemoveAt(documents, index)
      closed == documents[index + 1]
  IN /\ cmd' = c
     /\ jump_origin' = None
     /\ trace' = Followed(c)
     /\ UNCHANGED <<cache_log, mapper, searcher>>
     /\ IF index >= Len(documents)
        THEN /\ result' = "ok"
             /\ UNCHANGED <<documents, active, events>>
        ELSE IF ~saved
        THEN /\ documents' = left
             /\ result' = "err"
             /\ UNCHANGED <<active, events>>
        ELSE /\ documents' = left
             /\ result' = "ok"
             /\ active' = IF Len(left) = 0 THEN 0
                          ELSE IF active >= Len(left) THEN Len(left) - 1
                          ELSE active
             /\ events' =
                  Append(events, DocumentClosed(closed.info.id))
                    \o IF Len(left) > 0 /\ active >= Len(left)
                       THEN <<ActiveDocumentChanged(left[Len(left)].info.id)>>
                       ELSE <<>>

CloseScript == <<Script("open_with", 1, 0), Script("open_with", 2, 0)>>

\* Session::new: no document, active = 0, no event.
InitClose ==
  /\ documents = <<>>
  /\ active = 0
  /\ events = <<>>
  /\ cmd = [op |-> "new", a |-> 0, b |-> 0, after_jump |-> FALSE]
  /\ result = "ok"
  /\ jump_origin = None
  /\ trace = [script |-> CloseScript, step |-> 0, on |-> TRUE]
  /\ cache_log = [inserted |-> {}, refs |-> {}]
  /\ mapper = EventMapperNew
  /\ searcher = None

CloseRoom == trace.step < MaxCloseSteps

ClosePaths == 1..MaxCloseDocs

CloseStored == {None, Some([DefaultState EXCEPT !.current_page = 1])}

\* Each file is open at most once at a time, so that the ids of the open
\* documents differ.
NextClose ==
  \/ \E id \in ClosePaths \ DocumentIds, stored \in CloseStored :
       CloseRoom /\ OpenWith(id, TRUE, stored)
  \/ \E id \in ClosePaths \ DocumentIds :
       CloseRoom /\ OpenWith(id, FALSE, None)
  \/ \E index \in 0..MaxCloseDocs, saved \in BOOLEAN :
       CloseRoom /\ (index >= Len(documents) => saved) /\ CloseDocument(index, saved)
  \/ \E index \in 0..MaxCloseDocs : CloseRoom /\ SwitchDocument(index)
  \/ CloseRoom /\ NextPage(1)
  \/ CloseRoom /\ DrainEvents

SpecClose == InitClose /\ [][NextClose]_vars

\* --- counts typed before a page command ------------------------------------------------
\* The event loop of the viewer: a key goes through EventMapper::map_event
\* and the Command it gives is handed to Session::apply.
ApplyMappedNextPage ==
  /\ cmd.op = "map_event"
  /\ cmd.out.type = "Command"
  /\ cmd.out.command = "NextPage"
  /\ NextPage(cmd.out.count)

ApplyMappedPrevPage ==
  /\ cmd.op = "map_event"
  /\ cmd.out.type = "Command"
  /\ cmd.out.command = "PrevPage"
  /\ PrevPage(cmd.out.count)

CountScript == <<Script("map_event", 0, 0)>>

\* The document is opened on the page the state store holds for it.
InitCount ==
  \E page \in 0..(CountPages - 1) :
    OpenedSessionWith([id |-> 1, page_count |-> CountPages], PlainBackend(CountPages),
                      [DefaultState EXCEPT !.current_page = page], CountScript)

CountRoom == trace.step < MaxCountSteps

CountInputs == {KeyEvent(c, "NONE") : c \in {"1", "9", "j", "k"}}

NextCount ==
  \/ \E event \in CountInputs : CountRoom /\ MapEvent(event)
  \/ CountRoom /\ ApplyMappedNextPage
  \/ CountRoom /\ ApplyMappedPrevPage

SpecCount == InitCount /\ [][NextCount]_vars

\* --- a search context used beside the session ---------------------------------------------
\* The file in two versions: every page reads "a" in the first and "b" in the
\* second; the backend's own search finds nothing, so that a search scans the
\* page texts.
VersionBackend(letter) ==
  [page_count |-> ContextPages, keyword |-> <<>>,
   search |-> [p \in 1..ContextPages |-> Ok(<<>>)],
   text |-> [p \in 1..ContextPages |-> Ok([text |-> <<letter>>])]]

\* HashMap::insert on the text cache: the entry of the page is replaced.
InsertText(cache, page, text) ==
  {e \in cache : e.page /= page} \cup {[page |-> page, text |-> text]}

\* One step of the background search on the active document's shared cache.
SearcherStep(c, cache, task, r) ==
  /\ documents' = [documents EXCEPT ![active + 1].text_cache = cache]
  /\ searcher' = task
  /\ cmd' = c
  /\ result' = r
  /\ jump_origin' = None
  /\ trace' = Followed(c)
  /\ UNCHANGED <<active, events, cache_log, mapper>>

\* DocumentInstance::search_context handed to a background search for
\* `query`: the context holds a clone of info, the Arc of the backend and the
\* Arc of the text cache, which stays the document's own map.
TakeSearchContext(query) ==
  /\ HasActive
  /\ searcher = None
  /\ Len(query) > 0
  /\ SearcherStep(Command("search_context", 0, 0), ActiveDoc.text_cache,
                  Some([info |-> ActiveDoc.info, backend |-> ActiveDoc.backend,
                        query |-> query, page |-> 0, missed |-> FALSE,
                        matches |-> <<>>]),
                  "taken")

\* build_search_matches of the context, up to the cache lookup of one page:
\* the backend's search of the page and, when it finds nothing, the lookup
\* in the shared cache (load_cached_page_text up to its first unlock).
ContextLookup ==
  /\ HasActive
  /\ IsSome(searcher)
  /\ LET task == Unwrap(searcher)
         found == search_page(task.backend, task.page, task.query)
         page_matches == IF found.ok THEN found.val ELSE <<>>
         cached == CachedText(ActiveDoc.text_cache, task.page)
         text == (CHOOSE e \in cached : TRUE).text
         step == Max(Len(ToLowercase(task.query)), 1)
         c == Command("build_search_matches", task.page, 0)
     IN /\ task.page < task.info.page_count
        /\ ~task.missed
        /\ IF Len(page_matches) > 0
           THEN SearcherStep(c, ActiveDoc.text_cache,
                  Some([task EXCEPT
                          !.page = task.page + 1,
                          !.matches = task.matches
                                        \o RectSetsToMatches(task.page, page_matches)]),
                  "found")
           ELSE IF cached /= {}
           THEN SearcherStep(c, ActiveDoc.text_cache,
                  Some([task EXCEPT
                          !.page = task.page + 1,
                          !.matches = task.matches
                                        \o IF Len(text.text) > 0
                                           THEN ScanText(ToLowercase(text.text),
                                                         ToLowercase(task.query),
                                                         step, task.page, 0)
                                           ELSE <<>>]),
                  "cached")
           ELSE SearcherStep(c, ActiveDoc.text_cache,
                             Some([task EXCEPT !.missed = TRUE]), "missed")

\* The rest of load_cached_page_text after a miss: the context's backend
\* extracts the text and the text is inserted into the shared cache.
ContextInsert ==
  /\ HasActive
  /\ IsSome(searcher)
  /\ LET task == Unwrap(searcher)
         loaded == page_text(task.backend, task.page)
         step == Max(Len(ToLowercase(task.query)), 1)
         c == Command("build_search_matches", task.page, 1)
     IN /\ task.missed
        /\ IF loaded.ok
           THEN SearcherStep(c, InsertText(ActiveDoc.text_cache, task.page, loaded.val),
                  Some([task EXCEPT
                          !.page = task.page + 1, !.missed = FALSE,
                          !.matches = task.matches
                                        \o IF Len(loaded.val.text) > 0
                                           THEN ScanText(ToLowercase(loaded.val.text),
                                                         ToLowercase(task.query),
                                                         step, task.page, 0)
                                           ELSE <<>>]),
                  "inserted")
           ELSE SearcherStep(c, ActiveDoc.text_cache,
                  Some([task EXCEPT !.page = task.page + 1, !.missed = FALSE]),
                  "failed")

\* build_search_matches returns after the last page and the context is dropped.
ContextReturn ==
  /\ HasActive
  /\ IsSome(searcher)
  /\ Unwrap(searcher).page >= Unwrap(searcher).info.page_count
  /\ SearcherStep(Command("build_search_matches", Unwrap(searcher).page, 2),
                  ActiveDoc.text_cache, None, "returned")

ContextScript == <<Script("search_context", 0, 0)>>

InitContext ==
  OpenedSession([id |-> 1, page_count |-> ContextPages], VersionBackend("a"),
                ContextScript)

ContextRoom == trace.step < MaxContextSteps

NextContext ==
  \/ \E letter \in {"a", "b"} : ContextRoom /\ TakeSearchContext(<<letter>>)
  \/ ContextRoom /\ ContextLookup
  \/ ContextRoom /\ ContextInsert
  \/ ContextRoom /\ ContextReturn
  \/ \E letter \in {"a", "b"} : ContextRoom /\ ReloadDocument(1, VersionBackend(letter))
  \/ \E page \in 0..(ContextPages - 1) : ContextRoom /\ CallLoadCachedPageText(page)

SpecContext == InitContext /\ [][NextContext]_vars

\* ------------------------------------------------------------------------
\* Claims
\* ------------------------------------------------------------------------
CurrentPage == ActiveDoc.state.current_page

BackStack == ActiveDoc.jump_history.back_stack

ForwardStack == ActiveDoc.jump_history.forward_stack

PagePosition(page) == [page |-> page, scale |-> One, viewport |-> ViewportDefault]

\* C1: after every ScaleBy and AdjustViewport command the scale lies in
\* [0.25, 4.0] and, if the scale is <= 1.0, the viewport offset is (0, 0).
ScaleViewportInvariant ==
  /\ ActiveDoc.state.scale >= MinScale
  /\ ActiveDoc.state.scale <= MaxScale
  /\ ActiveDoc.state.scale <= One => ActiveDoc.state.viewport = ViewportDefault

\* C2: when JumpBackward succeeds, an immediately following JumpForward
\* returns the document to the position (page, scale, viewport) it had just
\* before the JumpBackward.
JumpRoundTrip ==
  [][(cmd.op = "JumpBackward" /\ result = "some" /\ cmd'.op = "JumpForward")
       => current_position(ActiveDoc)' = Unwrap(jump_origin)]_vars

\* C3: on a freshly opened 100-page document the commands NextPage(12),
\* JumpBackward, JumpForward, GotoPage(25), PrevPage(5), JumpBackward,
\* JumpBackward, JumpBackward leave the current page at 12, 0, 12, 25, 20,
\* 25, 12, 0 respectively.
NavScriptPages == <<12, 0, 12, 25, 20, 25, 12, 0>>

ScenarioPages ==
  (trace.on /\ trace.step >= 1 /\ trace.step <= Len(NavScriptPages))
    => CurrentPage = NavScriptPages[trace.step]

ScenarioPagesWitness ==
  trace.on /\ trace.step = Len(NavScript) /\ CurrentPage = 0

\* C4 as stated: a NextPage or PrevPage command that changes the page pushes
\* the previous position onto the back-stack and clears the forward-stack if
\* and only if the page moved by more than 1; a move by exactly 1 changes
\* neither stack.
IsPageStep == cmd'.op \in {"NextPage", "PrevPage"} /\ CurrentPage' /= CurrentPage

PageStepPushes ==
  [][IsPageStep =>
       IF AbsDiff(CurrentPage', CurrentPage) > 1
       THEN /\ BackStack' = Append(BackStack, current_position(ActiveDoc))
            /\ ForwardStack' = <<>>
       ELSE BackStack' = BackStack /\ ForwardStack' = ForwardStack]_vars

\* C4 as amended: such a command records a jump if and only if the page moved
\* by more than 1: the forward-stack is cleared and the previous position is
\* pushed onto the back-stack unless it already is its top (below capacity
\* nothing is dropped); a move by exactly 1 changes neither stack.
PageStepRecords ==
  [][IsPageStep =>
       IF AbsDiff(CurrentPage', CurrentPage) > 1
       THEN /\ ForwardStack' = <<>>
            /\ IF Len(BackStack) > 0 /\ Last(BackStack) = current_position(ActiveDoc)
               THEN BackStack' = BackStack
               ELSE Len(BackStack) < JUMP_HISTORY_CAPACITY
                      => BackStack' = Append(BackStack, current_position(ActiveDoc))
       ELSE BackStack' = BackStack /\ ForwardStack' = ForwardStack]_vars

PageStepRecordsWitness ==
  /\ cmd.op \in {"NextPage", "PrevPage"}
  /\ result = "recorded"
  /\ Len(BackStack) = 1
  /\ ForwardStack = <<>>

\* C5 as stated: in the scenario, the PrevPage(5) that moves the document
\* from page 25 to page 20 leaves the back-stack and the forward-stack
\* unchanged.
IsScenarioPrevPage == trace.on /\ trace.step = 4 /\ trace'.on /\ trace'.step = 5

ScenarioPrevPageNoJump ==
  [][IsScenarioPrevPage =>
       BackStack' = BackStack /\ ForwardStack' = ForwardStack]_vars

\* C5 as amended: that PrevPage(5) moves the page by 5 > 1 and so records a
\* jump: it pushes the page-25 position onto the back-stack (above the
\* positions of pages 0 and 12) and leaves the forward-stack empty.
ScenarioPrevPageJump ==
  [][IsScenarioPrevPage =>
       /\ CurrentPage = 25 /\ CurrentPage' = 20
       /\ BackStack' = Append(BackStack, PagePosition(25))
       /\ BackStack' = <<PagePosition(0), PagePosition(12), PagePosition(25)>>
       /\ ForwardStack = <<>> /\ ForwardStack' = <<>>]_vars

ScenarioPrevPageJumpWitness ==
  trace.on /\ trace.step = 5 /\ CurrentPage = 20 /\ Len(BackStack) = 3

\* C6: a jump-recording navigation whose origin and destination differ
\* empties the forward-stack, and a JumpForward issued right after it leaves
\* the current page unchanged.
ForwardClearedByJump ==
  [][/\ result' = "recorded" => ForwardStack' = <<>>
     /\ (result = "recorded" /\ cmd'.op = "JumpForward")
          => (CurrentPage' = CurrentPage /\ result' = "none")]_vars

ForwardClearedByJumpWitness ==
  /\ cmd.op = "JumpForward"
  /\ cmd.after_jump
  /\ result = "none"
  /\ Len(BackStack) > 0

\* C7: once more than 10 distinct keys were stored, all with the same
\* reference page R, the render cache holds exactly 10 of them and no key it
\* dropped is nearer to R (by |page - R|) than a key it kept.
CacheKeepsNearest ==
  (Cardinality(cache_log.refs) = 1 /\ Cardinality(cache_log.inserted) > 10)
    => LET R == CHOOSE r \in cache_log.refs : TRUE
           cache == ActiveDoc.render_cache
       IN /\ Cardinality(cache) = 10
          /\ cache \subseteq cache_log.inserted
          /\ \A k \in cache : \A e \in cache_log.inserted \ cache :
               AbsDiff(k.page_index, R) <= AbsDiff(e.page_index, R)

CacheKeepsNearestWitness ==
  /\ Cardinality(cache_log.refs) = 1
  /\ Cardinality(cache_log.inserted) = 2 * CachePages
  /\ Cardinality(ActiveDoc.render_cache) = 10
  /\ ActiveDoc.state.current_page = 2

SearchOf(doc) == Unwrap(doc.search_state)

\* The index of the first match on a page >= start, or 0 if there is none.
FirstIndexFrom(matches, start) ==
  LET hits == {i \in 1..Len(matches) : matches[i].page >= start}
  IN IF hits = {} THEN 0 ELSE (CHOOSE i \in hits : \A j \in hits : i <= j) - 1

IsApplyResults ==
  cmd'.op = "apply_search_results" /\ cmd'.b[1] = ActiveDoc.info.id

AppliedResults(start) ==
  IF Len(cmd'.a) = 0
  THEN ActiveDoc'.search_state = None
  ELSE /\ IsSome(ActiveDoc'.search_state)
       /\ SearchOf(ActiveDoc').query = cmd'.a
       /\ IF Len(SearchOf(ActiveDoc').matches) = 0
          THEN SearchOf(ActiveDoc').current_index = None
          ELSE SearchOf(ActiveDoc').current_index =
                 Some(FirstIndexFrom(SearchOf(ActiveDoc').matches, start))

\* C8 as stated: apply_search_results with an empty query clears the search
\* state; with a non-empty query and matches the current index becomes that
\* of the first match on a page >= start_page, or 0 if there is none; with
\* no matches the search stays active with total 0 and no current index.
ApplyResultsFromStartPage ==
  [][IsApplyResults => AppliedResults(cmd'.b[2])]_vars

\* C8 as amended: the same, the first match being looked for from the page
\* min(start_page, page_count - 1): a start_page beyond the last page stands
\* for the last page.
ApplyResultsFromClampedPage ==
  [][IsApplyResults =>
       AppliedResults(Min(cmd'.b[2], ActiveDoc.info.page_count - 1))]_vars

ApplyResultsFromClampedPageWitness ==
  /\ cmd.op = "apply_search_results"
  /\ cmd.b = <<1, SearchPages>>
  /\ IsSome(ActiveDoc.search_state)
  /\ SearchOf(ActiveDoc).current_index = Some(2)
  /\ CurrentPage = 9

IsSearchStep ==
  /\ cmd'.op \in {"SearchNext", "SearchPrev"}
  /\ IsSome(ActiveDoc.search_state)
  /\ Len(SearchOf(ActiveDoc).matches) > 0
  /\ IsSome(SearchOf(ActiveDoc).current_index)

StepTarget(count) ==
  LET total == Len(SearchOf(ActiveDoc).matches)
      c == Unwrap(SearchOf(ActiveDoc).current_index)
  IN IF cmd'.op = "SearchNext" THEN (c + count) % total
     ELSE (c - count) % total

SearchStepLands(count) ==
  /\ SearchOf(ActiveDoc').current_index = Some(StepTarget(count))
  /\ CurrentPage' = SearchOf(ActiveDoc).matches[StepTarget(count) + 1].page
  /\ result' = BoolResult(CurrentPage' /= CurrentPage)

SearchExamplePages ==
  (trace.on /\ trace.script = SearchExampleScript /\ trace.step >= 2)
    => /\ CurrentPage = <<5, 5, 6, 4>>[trace.step]
       /\ SearchOf(ActiveDoc).current_index = Some(CurrentPage)

\* C9 as stated: with an active search of total > 0 matches and current
\* index c, SearchNext(count) sets the index to (c + count) mod total and
\* SearchPrev(count) to (c - count) mod total, moves to that match's page and
\* returns whether the page changed; with a match on every page and the
\* search started on page 5, SearchNext(1) gives page 6 and SearchPrev(2)
\* then page 4.
SearchStepByCount ==
  [][(IsSearchStep => SearchStepLands(cmd'.a)) /\ SearchExamplePages']_vars

\* C9 as amended: the same with max(count, 1) for count: a SearchNext or
\* SearchPrev command with count 0 steps by one match.
SearchStepByCountAtLeastOne ==
  [][(IsSearchStep => SearchStepLands(Max(cmd'.a, 1))) /\ SearchExamplePages']_vars

SearchStepByCountAtLeastOneWitness ==
  /\ trace.on /\ trace.script = SearchExampleScript /\ trace.step = 4
  /\ cmd.op = "SearchPrev" /\ result = "true"
  /\ CurrentPage = 4

\* C10 as stated: with matches on pages 2, 5, 9 and current page 0, after
\* the search the first, second and third SearchNext(1) leave the page at 2,
\* 5 and 9, and the fourth at 2.
SearchWrapStated ==
  (trace.on /\ trace.script = SearchWrapScript /\ trace.step >= 2)
    => CurrentPage = <<2, 5, 9, 2>>[trace.step - 1]

\* C10 as amended: the search itself moves to page 2; the first and second
\* SearchNext(1) move to pages 5 and 9, the third wraps around to page 2 and
\* the fourth lands on page 5.
SearchWrap ==
  (trace.on /\ trace.script = SearchWrapScript /\ trace.step >= 1)
    => CurrentPage = <<2, 5, 9, 2, 5>>[trace.step]

SearchWrapWitness ==
  /\ trace.on /\ trace.script = SearchWrapScript /\ trace.step = 5
  /\ CurrentPage = 5
  /\ SearchOf(ActiveDoc).current_index = Some(1)


IsAdvanceCall == cmd'.op \in {"next_search_match", "previous_search_match"}

\* C11 as stated: next_search_match and previous_search_match return None
\* and change nothing whenever no search is active, for every count, and
\* return false and change nothing when the active search has no match.
AdvanceWithoutMatches ==
  [][IsAdvanceCall =>
       /\ ~IsSome(ActiveDoc.search_state) =>
            result' = "None" /\ documents' = documents
       /\ (/\ IsSome(ActiveDoc.search_state)
           /\ Len(SearchOf(ActiveDoc).matches) = 0) =>
            result' = "false" /\ documents' = documents]_vars

\* C11: next_search_match and previous_search_match return None and change
\* nothing when no search is active and count >= 1; they return false and
\* change nothing when count is 0, and when the active search has no match.
AdvanceWithoutMatchesFromOne ==
  [][IsAdvanceCall =>
       /\ (~IsSome(ActiveDoc.search_state) /\ cmd'.a >= 1) =>
            result' = "None" /\ documents' = documents
       /\ cmd'.a = 0 => result' = "false" /\ documents' = documents
       /\ (/\ IsSome(ActiveDoc.search_state)
           /\ Len(SearchOf(ActiveDoc).matches) = 0) =>
            result' = "false" /\ documents' = documents]_vars

AdvanceWithoutMatchesFromOneWitness ==
  /\ cmd.op = "previous_search_match" /\ cmd.a = 2
  /\ result = "false"
  /\ IsSome(ActiveDoc.search_state)
  /\ Len(SearchOf(ActiveDoc).matches) = 0

MatchesOn(matches, page) ==
  LET OnPage(m) == m.page = page IN SelectSeq(matches, OnPage)

\* The number of occurrences of `pat` found in `str` from `from` on, each
\* search resuming behind the occurrence before it.
RECURSIVE Occurrences(_, _, _)
Occurrences(str, pat, from) ==
  IF from >= Len(str) THEN 0
  ELSE LET at == {i \in from..(Len(str) - Len(pat)) : StartsWithAt(str, pat, i)}
       IN IF at = {} THEN 0
          ELSE 1 + Occurrences(str, pat,
                               (CHOOSE i \in at : \A j \in at : i <= j) + Len(pat))

\* C18: build_search_matches never fails because of a single page: where
\* search_page fails the page's matches are those of the substring scan of
\* its text, where the text extraction fails too the page has no match, and
\* the matches of every other page are returned, in ascending page order.
SearchSurvivesPageFailures ==
  (HasActive /\ IsSome(ActiveDoc.search_state)) =>
    LET backend == ActiveDoc.backend
        query == SearchOf(ActiveDoc).query
        matches == SearchOf(ActiveDoc).matches
    IN /\ \A i, j \in 1..Len(matches) : i < j => matches[i].page <= matches[j].page
       /\ \A m \in 1..Len(matches) : matches[m].page < ActiveDoc.info.page_count
       /\ \A page \in 0..(ActiveDoc.info.page_count - 1) :
            LET found == search_page(backend, page, query)
                text == page_text(backend, page)
                on_page == MatchesOn(matches, page)
            IN /\ (~found.ok /\ text.ok) =>
                    on_page = [i \in 1..Occurrences(ToLowercase(text.val.text),
                                                    ToLowercase(query), 0)
                                 |-> SearchMatch(page, <<>>)]
               /\ (~found.ok /\ ~text.ok) => on_page = <<>>
               /\ (found.ok /\ Len(found.val) > 0) =>
                    on_page = [i \in 1..Len(found.val)
                                 |-> SearchMatch(page, FilterValid(found.val[i]))]

SearchSurvivesPageFailuresWitness ==
  /\ HasActive /\ IsSome(ActiveDoc.search_state)
  /\ cmd.op = "perform_search"
  /\ ~search_page(ActiveDoc.backend, 5, <<"K">>).ok
  /\ ~search_page(ActiveDoc.backend, 7, <<"K">>).ok
  /\ ~page_text(ActiveDoc.backend, 7).ok
  /\ [page |-> 5, rects |-> <<>>] \in
       {SearchOf(ActiveDoc).matches[i] : i \in 1..Len(SearchOf(ActiveDoc).matches)}
  /\ MatchesOn(SearchOf(ActiveDoc).matches, 7) = <<>>
  /\ Len(MatchesOn(SearchOf(ActiveDoc).matches, 9)) = 1

IsRangeCall ==
  /\ cmd'.op \in {"render_page_internal", "load_cached_page_text"}
  /\ cmd'.a >= ActiveDoc.info.page_count

\* C19: rendering or loading the text of a page index >= page_count returns
\* an out-of-range error without calling the backend and without changing
\* the render cache or the page-text cache.
OutOfRangeRejected ==
  [][IsRangeCall =>
       /\ result' = "out of range"
       /\ cmd'.b = FALSE
       /\ documents'[active + 1].render_cache = ActiveDoc.render_cache
       /\ documents'[active + 1].text_cache = ActiveDoc.text_cache]_vars

OutOfRangeRejectedWitness ==
  /\ cmd.op \in {"render_page_internal", "load_cached_page_text"}
  /\ cmd.a >= ActiveDoc.info.page_count
  /\ result = "out of range"
  /\ ActiveDoc.render_cache /= {}
  /\ ActiveDoc.text_cache /= {}

\* C20: for a document with at least one page, current_page < page_count
\* holds after open_with, for every state the StateStore returns, and after
\* every subsequent command and reload; GotoPage and NextPage beyond the end
\* land on the last page and PrevPage below zero lands on page 0.
CurrentPageInRange ==
  /\ (HasActive /\ ActiveDoc.info.page_count >= 1) =>
        CurrentPage < ActiveDoc.info.page_count
  /\ (cmd.op = "GotoPage" /\ cmd.a >= ActiveDoc.info.page_count) =>
        CurrentPage = LastPage(ActiveDoc)
  /\ (cmd.op = "PrevPage" /\ cmd.a = OpenPages + 1) => CurrentPage = 0

LinksOf(doc) == Unwrap(doc.link_state)

\* C14: right after start_link_mode the current link index is the index of
\* the first link whose page equals the current page, and is unset when no
\* link lies on the current page, even if links exist on other pages.
LinkIndexAfterStart ==
  [][(cmd'.op = "EnterLinkMode" /\ result' = "Ok") =>
       LET doc == documents'[active' + 1]
           links == LinksOf(doc).links
           index == LinksOf(doc).current_index
           on_page == {i \in 0..(Len(links) - 1) :
                         links[i + 1].page = doc.state.current_page}
       IN /\ doc.state.current_page = CurrentPage
          /\ on_page /= {} =>
               /\ IsSome(index)
               /\ Unwrap(index) \in on_page
               /\ \A i \in on_page : Unwrap(index) <= i
          /\ on_page = {} => index = None]_vars

LinkIndexAfterStartWitness ==
  /\ cmd.op = "EnterLinkMode" /\ result = "Ok"
  /\ IsSome(ActiveDoc.link_state)
  /\ Len(LinksOf(ActiveDoc).links) = 2
  /\ LinksOf(ActiveDoc).current_index = None
  /\ CurrentPage = 1

IsLinkCall ==
  /\ cmd'.op \in {"next_link", "previous_link"}
  /\ IsSome(ActiveDoc.link_state)
  /\ Len(LinksOf(ActiveDoc).links) > 0

\* The index of the first link on or after the page, 0 if there is none.
SeedIndex(links, page) ==
  LET at == {i \in 0..(Len(links) - 1) : links[i + 1].page >= page}
  IN IF at = {} THEN 0 ELSE CHOOSE i \in at : \A j \in at : i <= j

\* What a call does to the index and the page, as the claim states it.
SeedsOrSteps ==
  LET links == LinksOf(ActiveDoc).links
      total == Len(links)
      index == LinksOf(ActiveDoc).current_index
      count == cmd'.a
      doc == documents'[active' + 1]
  IN /\ IsSome(doc.link_state) /\ LinksOf(doc).links = links
     /\ index = None =>
          /\ LinksOf(doc).current_index = Some(SeedIndex(links, CurrentPage))
          /\ doc.state.current_page = links[SeedIndex(links, CurrentPage) + 1].page
     /\ index /= None =>
          LinksOf(doc).current_index =
            Some(IF cmd'.op = "next_link"
                 THEN (Unwrap(index) + (count % total)) % total
                 ELSE (Unwrap(index) + total - (count % total)) % total)

\* C15 as stated: when link mode has links but no current index, the first
\* next_link/previous_link call, whatever its count and direction, only
\* seeds the index to the first link on or after the current page (index 0
\* if none) and navigates to that link's page; every later call steps by
\* count modulo the number of links in the requested direction.
LinkSeedThenStep == [][IsLinkCall => SeedsOrSteps]_vars

\* C15: when link mode has links but no current index, the first
\* next_link/previous_link call with a count >= 1, whatever that count and
\* its direction, only seeds the index to the first link on or after the
\* current page (index 0 if none) and navigates to that link's page; every
\* later call steps by count modulo the number of links in the requested
\* direction; a call with count 0 returns false and changes nothing.
LinkSeedThenStepFromOne ==
  [][IsLinkCall =>
       IF cmd'.a = 0
       THEN result' = "false" /\ documents' = documents
       ELSE SeedsOrSteps]_vars

LinkSeedThenStepFromOneWitness ==
  /\ cmd.op = "previous_link" /\ cmd.a = 2 /\ result = "true"
  /\ IsSome(ActiveDoc.link_state)
  /\ Len(LinksOf(ActiveDoc).links) = 2
  /\ LinksOf(ActiveDoc).current_index = Some(1)
  /\ CurrentPage = 2
  /\ BackStack = <<PagePosition(1)>>

\* The link ActivateLink acts on, if there is one.
CurrentLink(doc) ==
  IF /\ IsSome(doc.link_state)
     /\ IsSome(LinksOf(doc).current_index)
     /\ Unwrap(LinksOf(doc).current_index) < Len(LinksOf(doc).links)
  THEN Some(LinksOf(doc).links[Unwrap(LinksOf(doc).current_index) + 1])
  ELSE None

\* The events the last command appended to the queue.
Emitted == SubSeq(events', Len(events) + 1, Len(events'))

ActivatedGoTo(page) ==
  LET doc == documents'[active' + 1]
      target == Min(page, ActiveDoc.info.page_count - 1)
  IN /\ result' = "Navigated"
     /\ doc.state.current_page = target
     /\ target /= CurrentPage =>
          /\ doc.state.viewport = [x |-> 0, y |-> 0]
          /\ Len(doc.jump_history.back_stack) > 0
          /\ Last(doc.jump_history.back_stack) = current_position(ActiveDoc)
          /\ doc.jump_history.forward_stack = <<>>
     /\ Emitted = <<RedrawNeeded(ActiveDoc.info.id)>>

ActivatedUri(uri) ==
  /\ result' = "External"
  /\ documents'[active' + 1].state.current_page = CurrentPage
  /\ \E i \in 1..Len(Emitted) :
       Emitted[i] = [type |-> "FollowExternalLink",
                     target |-> [variant |-> "Url", url |-> uri]]

ActivatedNothing(outcome) ==
  /\ result' = outcome
  /\ documents' = documents
  /\ Emitted = <<>>

\* C16: ActivateLink has four distinct outcomes: a GoTo link moves the current
\* page to the target clamped to the last page, resets the viewport and
\* records a jump when the page changes, and emits RedrawNeeded; a Uri link
\* leaves the page unchanged and emits FollowExternalLink with that URI; an
\* Unsupported link and the absence of a current link change nothing and
\* emit no event.
ActivateLinkOutcomes ==
  [][cmd'.op = "ActivateLink" =>
       IF ~IsSome(CurrentLink(ActiveDoc)) THEN ActivatedNothing("NoActiveLink")
       ELSE LET action == Unwrap(CurrentLink(ActiveDoc)).action
            IN IF action.variant = "GoTo" THEN ActivatedGoTo(action.page)
               ELSE IF action.variant = "Uri" THEN ActivatedUri(action.uri)
               ELSE ActivatedNothing("Unsupported")]_vars

ActivateLinkOutcomesWitness ==
  /\ cmd.op = "ActivateLink" /\ result = "Navigated"
  /\ IsSome(CurrentLink(ActiveDoc))
  /\ Unwrap(CurrentLink(ActiveDoc)).action = GoTo(LinkPages + 4)
  /\ CurrentPage = LinkPages - 1
  /\ Len(ActiveDoc.jump_history.back_stack) > 0

\* The entries of the pages from `page` on whose page_links call succeeds.
RECURSIVE EntriesOfValidPages(_, _)
EntriesOfValidPages(doc, page) ==
  IF page >= doc.info.page_count THEN <<>>
  ELSE LET definitions == page_links(doc.backend, page)
       IN (IF definitions.ok THEN EntriesOfPage(page, definitions.val) ELSE <<>>)
          \o EntriesOfValidPages(doc, page + 1)

\* C17: if the backend's page_links call fails for one page while link mode
\* is being entered, that page is skipped and link mode is still entered with
\* the valid links of every other page, rather than the whole operation
\* failing.
LinkModeSkipsFailingPage ==
  [][cmd'.op = "EnterLinkMode" =>
       /\ result' = "Ok"
       /\ IsSome(documents'[active' + 1].link_state)
       /\ LinksOf(documents'[active' + 1]).links = EntriesOfValidPages(ActiveDoc, 0)]_vars

\* C12: the text extracted for a selection does not depend on which of
\* anchor and head comes first: for every anchor/head pair, SwapVisualCursor
\* leaves selection_text unchanged.
SwapKeepsSelectionText ==
  [][cmd'.op = "SwapVisualCursor" =>
       selection_text(documents'[active' + 1]) = selection_text(ActiveDoc)]_vars

SwapKeepsSelectionTextWitness ==
  /\ cmd.op = "SwapVisualCursor" /\ result = "true"
  /\ IsSome(ActiveDoc.selection_state)
  /\ compare_points(Unwrap(ActiveDoc.selection_state).anchor,
                    Unwrap(ActiveDoc.selection_state).head) = "Greater"
  /\ Unwrap(ActiveDoc.selection_state).anchor.page
       > Unwrap(ActiveDoc.selection_state).head.page
  /\ selection_text(ActiveDoc) /= None
  /\ Len(Unwrap(selection_text(ActiveDoc))) > 2

\* The bytes of the glyphs first..(last - 1) of a page of the backend.
RECURSIVE GlyphBytes(_, _, _)
GlyphBytes(pt, first, last) ==
  IF first >= last THEN <<>>
  ELSE SubSeq(pt.text, pt.glyphs[first + 1].range.start + 1,
              pt.glyphs[first + 1].range.end)
       \o GlyphBytes(pt, first + 1, last)

\* The selected substring of one page of the span: from the start glyph on
\* the first page, up to the end glyph on the last, the whole page between.
Fragment(doc, span, page) ==
  LET pt == page_text(doc.backend, page).val
      first == IF page = span.start.page
               THEN Min(span.start.glyph_index, Len(pt.glyphs)) ELSE 0
      last == IF page = span.end.page
              THEN Min(span.end.glyph_index, Len(pt.glyphs)) ELSE Len(pt.glyphs)
  IN GlyphBytes(pt, first, last)

\* The fragments joined by "\n", an empty fragment left out.
RECURSIVE JoinNonEmpty(_)
JoinNonEmpty(fragments) ==
  IF Len(fragments) = 0 THEN <<>>
  ELSE LET rest == JoinNonEmpty(Tail(fragments))
       IN IF Len(fragments[1]) = 0 THEN rest
          ELSE IF Len(rest) = 0 THEN fragments[1]
          ELSE fragments[1] \o <<"\n">> \o rest

SpanOf(doc) == normalized(Unwrap(doc.selection_state))

SpansThreePages ==
  /\ HasActive /\ IsSome(ActiveDoc.selection_state)
  /\ SpanOf(ActiveDoc).end.page = SpanOf(ActiveDoc).start.page + 2

\* C13 as stated: for a selection spanning pages p..p+2, the extracted text
\* is the concatenation, in page order, of the selected substring of each
\* page (from the start glyph on the first page, whole middle pages, up to
\* the end glyph on the last page), with one "\n" between the fragments of
\* consecutive pages.
ThreePageTextJoined ==
  SpansThreePages =>
    LET span == SpanOf(ActiveDoc)
        p == span.start.page
    IN selection_text(ActiveDoc) =
         Some(Fragment(ActiveDoc, span, p) \o <<"\n">>
              \o Fragment(ActiveDoc, span, p + 1) \o <<"\n">>
              \o Fragment(ActiveDoc, span, p + 2))

\* C13: for a selection spanning pages p..p+2, the extracted text is the
\* concatenation, in page order, of the non-empty selected substrings of the
\* pages, with one "\n" between one substring and the next; a page whose
\* substring is empty adds neither text nor a "\n".
ThreePageTextJoinedNonEmpty ==
  SpansThreePages =>
    LET span == SpanOf(ActiveDoc)
        p == span.start.page
    IN selection_text(ActiveDoc) =
         Some(JoinNonEmpty(<<Fragment(ActiveDoc, span, p),
                             Fragment(ActiveDoc, span, p + 1),
                             Fragment(ActiveDoc, span, p + 2)>>))

ThreePageTextJoinedNonEmptyWitness ==
  /\ SpansThreePages
  /\ selection_text(ActiveDoc) = Some(<<"b", "\n", "C3", "A9", "\n", "c">>)

\* The command is a GotoMark or a GotoNamedMark for a key that has no mark.
IsGotoUnknownMark ==
  \/ cmd'.op = "GotoMark" /\ cmd'.key \notin DOMAIN ActiveDoc.state.marks
  \/ cmd'.op = "GotoNamedMark" /\ cmd'.key \notin DOMAIN ActiveDoc.state.named_marks

\* C21: GotoMark and GotoNamedMark for a key that has no mark are a silent
\* no-op: the command returns success, emits no event and leaves the page,
\* the viewport and the jump history unchanged.
GotoUnknownMarkIsNoOp ==
  [][IsGotoUnknownMark =>
       /\ result' /= "Err"
       /\ events' = events
       /\ documents'[active' + 1].state.current_page = ActiveDoc.state.current_page
       /\ documents'[active' + 1].state.viewport = ActiveDoc.state.viewport
       /\ documents'[active' + 1].jump_history = ActiveDoc.jump_history]_vars

GotoUnknownMarkIsNoOpWitness ==
  /\ cmd.op = "GotoMark" /\ result = "no mark"
  /\ cmd.key \notin DOMAIN ActiveDoc.state.marks
  /\ DOMAIN ActiveDoc.state.marks /= {}
  /\ ActiveDoc.state.current_page > 0
  /\ Len(ActiveDoc.jump_history.back_stack) > 0

\* The marks of `old` that point at a page of a document of page_count pages.
MarksWithin(old, new, page_count) ==
  /\ DOMAIN new = {k \in DOMAIN old : old[k] < page_count}
  /\ \A k \in DOMAIN new : new[k] = old[k] /\ new[k] < page_count

\* C22 as stated: after reload, every character mark and every named mark
\* maps to a page < the new page count: the marks pointing at or beyond the
\* new page count are removed and all other marks are kept unchanged;
\* current_page is clamped to the new last page.
ReloadRevalidatesMarks ==
  [][(cmd'.op = "reload_document" /\ result' = "true") =>
       LET old == ActiveDoc.state
           new == documents'[active' + 1]
       IN /\ MarksWithin(old.marks, new.state.marks, new.info.page_count)
          /\ MarksWithin(old.named_marks, new.state.named_marks,
                         new.info.page_count)
          /\ new.state.current_page =
               Min(old.current_page, SaturatingSub(new.info.page_count, 1))]_vars

\* C22: after reload, the marks pointing at or beyond the new page count are
\* removed and all other marks are kept unchanged; current_page is within
\* the new document: it is the old page clamped to the new last page, or,
\* when the search rebuilt by the reload has matches, the page of the first
\* match at or after that clamped page (of the first match if none is).
ReloadRevalidatesMarksAndPage ==
  [][(cmd'.op = "reload_document" /\ result' = "true") =>
       LET old == ActiveDoc.state
           new == documents'[active' + 1]
           last == SaturatingSub(new.info.page_count, 1)
           clamped == Min(old.current_page, last)
       IN /\ MarksWithin(old.marks, new.state.marks, new.info.page_count)
          /\ MarksWithin(old.named_marks, new.state.named_marks,
                         new.info.page_count)
          /\ new.state.current_page <= last
          /\ new.state.current_page =
               IF IsSome(new.search_state) /\ Len(SearchOf(new).matches) > 0
               THEN SearchOf(new).matches[
                      FirstIndexFrom(SearchOf(new).matches, clamped) + 1].page
               ELSE clamped]_vars

ReloadRevalidatesMarksAndPageWitness ==
  /\ cmd.op = "reload_document" /\ result = "true"
  /\ trace.on /\ trace.step = Len(MarkScript)
  /\ ActiveDoc.info.page_count = 2
  /\ DOMAIN ActiveDoc.state.marks = {"a"}
  /\ ActiveDoc.state.marks["a"] = 0
  /\ ActiveDoc.state.current_page = 1

IsReloadWithSearch ==
  /\ cmd'.op = "reload_document" /\ result' = "true"
  /\ IsSome(ActiveDoc.search_state)

\* The matches build_search_matches finds for the query in the document.
MatchesBuiltFrom(doc, query) ==
  build_search_matches(search_context(doc), query).matches

\* C23 as stated: if a search is active when reload is called, a search with
\* the same query string is active after reload and its match list is the
\* one built from the new backend.
ReloadKeepsSearch ==
  [][IsReloadWithSearch =>
       LET new == documents'[active' + 1]
       IN /\ IsSome(new.search_state)
          /\ SearchOf(new).query = SearchOf(ActiveDoc).query
          /\ SearchOf(new).matches =
               MatchesBuiltFrom(new, SearchOf(ActiveDoc).query)]_vars

\* C23: if a search is active when reload is called, the reload searches for
\* its trimmed query: unless that is empty, a search with the trimmed query
\* string is active after reload and its match list is the one built from
\* the new backend; a query of whitespace only leaves no search active.
ReloadKeepsTrimmedSearch ==
  [][IsReloadWithSearch =>
       LET new == documents'[active' + 1]
           trimmed == Trim(SearchOf(ActiveDoc).query)
       IN IF Len(trimmed) = 0 THEN new.search_state = None
          ELSE /\ IsSome(new.search_state)
               /\ SearchOf(new).query = trimmed
               /\ SearchOf(new).matches = MatchesBuiltFrom(new, trimmed)]_vars

ReloadKeepsTrimmedSearchWitness ==
  /\ cmd.op = "reload_document" /\ result = "true"
  /\ ActiveDoc.backend = SparseBackend(MarkPages)
  /\ IsSome(ActiveDoc.search_state)
  /\ SearchOf(ActiveDoc).query = <<"K">>
  /\ Len(SearchOf(ActiveDoc).matches) = 1
  /\ SearchOf(ActiveDoc).matches[1].page = 2

IsPrefix(s, t) == Len(s) <= Len(t) /\ SubSeq(t, 1, Len(s)) = s

IsDrain == cmd'.op = "drain_events"

\* C24: between drains the event queue only grows at its end; drain_events
\* returns the whole queue in emission order and leaves it empty, and a drain
\* that directly follows a drain returns nothing.
EventQueueDrainedOnce ==
  [][IF IsDrain
     THEN /\ cmd'.returned = events
          /\ events' = <<>>
          /\ (cmd.op = "drain_events" => cmd'.returned = <<>>)
     ELSE IsPrefix(events, events')]_vars

EventQueueDrainedOnceWitness ==
  /\ cmd.op = "drain_events"
  /\ Len(cmd.returned) > 4
  /\ Last(cmd.returned).type = "RedrawNeeded"
  /\ events = <<>>

IsDocumentCommand == cmd'.op \notin {"SwitchDocument", "drain_events"}

\* C25: a document-level command leaves the active index and every document
\* other than the active one unchanged, and every RedrawNeeded event it
\* appends carries the id of the active document.
CommandsChangeOnlyActiveDocument ==
  [][IsDocumentCommand =>
       /\ active' = active
       /\ Len(documents') = Len(documents)
       /\ \A i \in 1..Len(documents) : i # active + 1 => documents'[i] = documents[i]
       /\ IsPrefix(events, events')
       /\ \A k \in (Len(events) + 1)..Len(events') :
            events'[k].type = "RedrawNeeded" => events'[k].doc = ActiveDoc.info.id]_vars

CommandsChangeOnlyActiveDocumentWitness ==
  /\ active = 0
  /\ cmd.op = "NextPage"
  /\ documents[1].state.current_page = 1
  /\ documents[2].state.current_page = 2
  /\ Last(events) = RedrawNeeded(1)

History == ActiveDoc.jump_history

\* A step of a command or of a direct call, not a drain of the event queue.
IsHistoryCall == ~(Len(events) > 0 /\ events' = <<>>)

\* The stack after a push of position that keeps the newest 128 entries.
PushedKeepingNewest(stack, position) ==
  IF Len(stack) > 0 /\ stack[Len(stack)] = position THEN stack
  ELSE IF Len(stack) < 128 THEN stack \o <<position>>
  ELSE Tail(stack) \o <<position>>

\* C27: both stacks hold at most 128 positions after every step, and a step
\* that pushes a position (a recorded page jump and a forward jump onto the
\* back-stack, a backward jump and a direct push_forward onto the
\* forward-stack) appends it and drops the oldest entry when the stack
\* already holds 128.
StacksKeepNewest128 ==
  [][/\ Len(History'.back_stack) <= 128
     /\ Len(History'.forward_stack) <= 128
     /\ (IsHistoryCall /\ cmd'.op = "NextPage" /\ result' = "recorded" =>
           History'.back_stack =
             PushedKeepingNewest(History.back_stack, current_position(ActiveDoc)))
     /\ (IsHistoryCall /\ cmd'.op = "JumpForward" /\ result' = "some" =>
           History'.back_stack =
             PushedKeepingNewest(History.back_stack, current_position(ActiveDoc)))
     /\ (IsHistoryCall /\ cmd'.op = "JumpBackward" /\ result' = "some" =>
           History'.forward_stack =
             PushedKeepingNewest(History.forward_stack, current_position(ActiveDoc)))
     /\ (IsHistoryCall /\ cmd'.op = "push_forward" =>
           History'.forward_stack =
             PushedKeepingNewest(History.forward_stack,
                                 [current_position(ActiveDoc) EXCEPT !.page = cmd'.a]))]_vars

StacksKeepNewest128Witness ==
  /\ cmd.op = "NextPage"
  /\ Len(History.back_stack) = 128
  /\ History.back_stack[1].page = 4
  /\ History.back_stack[128].page = 258
  /\ ActiveDoc.state.current_page = 260

IsInPlaceEdit ==
  /\ cmd'.op \in {"ScaleBy", "ResetScale", "AdjustViewport"}
  /\ ~(Len(events) > 0 /\ events' = <<>>)

\* C28: a ScaleBy, ResetScale or AdjustViewport command leaves the back-stack
\* and the forward-stack of the jump history as they were.
InPlaceEditsKeepStacks ==
  [][IsInPlaceEdit =>
       /\ ActiveDoc'.jump_history.back_stack = BackStack
       /\ ActiveDoc'.jump_history.forward_stack = ForwardStack]_vars

InPlaceEditsKeepStacksWitness ==
  /\ cmd.op = "ScaleBy"
  /\ result = "synced"
  /\ ActiveDoc.state.scale = MaxScale
  /\ Len(ForwardStack) = 1
  /\ ActiveDoc.jump_history.last_known = Some(current_position(ActiveDoc))

IsCharStep(motion) ==
  /\ cmd'.op = "MoveVisualCursor"
  /\ cmd'.a = motion
  /\ cmd'.b = 1

\* The point a motion starts from: the visual cursor after ensure_visual_cursor.
MotionStart == Unwrap(ensure_visual_cursor(ActiveDoc).doc.visual_cursor)

GlyphsOfPage(page) == Len(SelectTexts[page + 1])

OneGlyphRight(point) ==
  IF point.glyph_index < GlyphsOfPage(point.page)
  THEN SelectionPoint(point.page, point.glyph_index + 1)
  ELSE SelectionPoint(point.page + 1, 0)

OneGlyphLeft(point) ==
  IF point.glyph_index > 0
  THEN SelectionPoint(point.page, point.glyph_index - 1)
  ELSE SelectionPoint(point.page - 1, GlyphsOfPage(point.page - 1))

\* The cursor after one more char motion from the state the step leaves.
CursorAfter(motion) == move_visual_cursor(ActiveDoc', motion, 1).doc.visual_cursor

\* C29: a Right of one step fails exactly at the last page's glyph_count and a
\* Left of one step exactly at (page 0, glyph 0), both leaving the cursor
\* where it was; a Right that moves steps one glyph (or to glyph 0 of the
\* next page) and a Left after it returns to the starting point; a Left that
\* moves steps one glyph (or to glyph_count of the previous page) and a Right
\* after it returns to the starting point.
CharMotionsAreInverses ==
  [][/\ IsCharStep("Right") =>
          IF MotionStart = SelectionPoint(SelectPages - 1, GlyphsOfPage(SelectPages - 1))
          THEN result' = "false" /\ ActiveDoc'.visual_cursor = Some(MotionStart)
          ELSE /\ result' = "true"
               /\ ActiveDoc'.visual_cursor = Some(OneGlyphRight(MotionStart))
               /\ CursorAfter("Left") = Some(MotionStart)
     /\ IsCharStep("Left") =>
          IF MotionStart = SelectionPoint(0, 0)
          THEN result' = "false" /\ ActiveDoc'.visual_cursor = Some(MotionStart)
          ELSE /\ result' = "true"
               /\ ActiveDoc'.visual_cursor = Some(OneGlyphLeft(MotionStart))
               /\ CursorAfter("Right") = Some(MotionStart)]_vars

CharMotionsAreInversesWitness ==
  /\ cmd.op = "MoveVisualCursor"
  /\ cmd.a = "Left"
  /\ result = "true"
  /\ ActiveDoc.visual_cursor = Some(SelectionPoint(2, 2))
  /\ ActiveDoc.state.current_page = 2

IsLineStep(motion, count) ==
  /\ cmd'.op = "MoveVisualCursor"
  /\ cmd'.a = motion
  /\ cmd'.b = count

RECURSIVE GlyphTotal(_)
GlyphTotal(lines) ==
  IF Len(lines) = 0 THEN 0 ELSE lines[1] + GlyphTotal(Tail(lines))

\* The line of LineTexts a point is on, a point past the last glyph being on
\* the line of the last glyph.
LineOf(point) ==
  LET lines == LineTexts[point.page + 1]
      idx == Min(point.glyph_index, GlyphTotal(lines) - 1)
  IN CHOOSE k \in 0..(Len(lines) - 1) :
       /\ idx < GlyphTotal(SubSeq(lines, 1, k + 1))
       /\ idx >= GlyphTotal(SubSeq(lines, 1, k))

NoLineMap(page) == Len(LineTexts[page + 1]) = 0

OnFirstLine(point) == NoLineMap(point.page) \/ LineOf(point) = 0

OnLastLine(point) ==
  NoLineMap(point.page) \/ LineOf(point) = Len(LineTexts[point.page + 1]) - 1

LastLineStart(page) ==
  IF NoLineMap(page) THEN 0
  ELSE GlyphTotal(LineTexts[page + 1]) - Last(LineTexts[page + 1])

\* The cursor a line motion of count 1 or 2 leaves when its first step
\* crosses to the given point of another page.
CrossedTo(point, count, delta) ==
  /\ result' = "true"
  /\ ActiveDoc'.visual_cursor =
       Some(IF count = 1 THEN point ELSE move_lines(ActiveDoc, point, delta).point)

\* C30 as stated: an Up from the first line of page p > 0 (or from a page
\* p > 0 without a line map) lands on glyph 0 of page p-1 and a Down from
\* the last line of page p (or from a page without a line map) on glyph 0
\* of page p+1, each taking one step of the count.
LineMotionsCrossToFirstGlyph ==
  [][\A count \in {1, 2} :
       /\ (IsLineStep("Up", count) /\ MotionStart.page > 0 /\ OnFirstLine(MotionStart)) =>
            CrossedTo(SelectionPoint(MotionStart.page - 1, 0), count, -1)
       /\ (IsLineStep("Down", count) /\ MotionStart.page + 1 < LinePages
             /\ OnLastLine(MotionStart)) =>
            CrossedTo(SelectionPoint(MotionStart.page + 1, 0), count, 1)]_vars

\* The point an Up lands on when it leaves the page of start.
UpLanding(start) ==
  SelectionPoint(start.page - 1,
                 IF NoLineMap(start.page) THEN 0 ELSE LastLineStart(start.page - 1))

\* C30: a Down from the last line of page p, or from a page without a line
\* map, lands on glyph 0 of page p+1; an Up from a page p > 0 without a line
\* map lands on glyph 0 of page p-1; an Up from the first line of a page
\* p > 0 with a line map lands on the first glyph of the last line of page
\* p-1 (glyph 0 when that page has no line map); each takes one step of the
\* count.
LineMotionsCrossPages ==
  [][\A count \in {1, 2} :
       /\ (IsLineStep("Up", count) /\ MotionStart.page > 0 /\ OnFirstLine(MotionStart)) =>
            CrossedTo(UpLanding(MotionStart), count, -1)
       /\ (IsLineStep("Down", count) /\ MotionStart.page + 1 < LinePages
             /\ OnLastLine(MotionStart)) =>
            CrossedTo(SelectionPoint(MotionStart.page + 1, 0), count, 1)]_vars

LineMotionsCrossPagesWitness ==
  /\ cmd.op = "MoveVisualCursor"
  /\ cmd.a = "Up"
  /\ cmd.b = 1
  /\ result = "true"
  /\ ActiveDoc.visual_cursor = Some(SelectionPoint(0, 2))
  /\ ActiveDoc.state.current_page = 0

IsKeyStep == cmd'.op = "map_event" /\ cmd'.event.kind = "Key"

IsDigitKey(event) == event.code \in {"0", "1", "2"} /\ event.mods = "NONE"

DigitOf(code) == IF code = "0" THEN 0 ELSE IF code = "1" THEN 1 ELSE 2

\* The keys that take a count and the command each of them emits.
CountTakers ==
  {<<KeyEvent("j", "NONE"), "NextPage", "">>, <<KeyEvent("k", "NONE"), "PrevPage", "">>,
   <<KeyEvent("n", "NONE"), "SearchNext", "">>,
   <<KeyEvent("N", "SHIFT"), "SearchPrev", "">>,
   <<KeyEvent("h", "NONE"), "AdjustViewport", "Left">>,
   <<KeyEvent("Right", "CONTROL"), "AdjustViewport", "Right">>}

IsCountTaker(event) == \E t \in CountTakers : t[1] = event

PendingOrOne ==
  IF IsSome(mapper.pending_count) /\ Unwrap(mapper.pending_count) > 0
  THEN Unwrap(mapper.pending_count) ELSE 1

\* C26: in Normal mode a digit key emits nothing and appends its digit to the
\* pending decimal count; a count-taking key (j, k, n, N, the pan keys) emits
\* its command with the pending count, or 1 when none or 0 is pending, and
\* clears the pending count; every other key clears the pending count.
DigitsCountNextCommand ==
  [][IsKeyStep =>
       /\ IsDigitKey(cmd'.event) =>
            /\ cmd'.out = UiEvent("None")
            /\ mapper'.pending_count =
                 Some(UnwrapOr(mapper.pending_count, 0) * 10 + DigitOf(cmd'.event.code))
       /\ \A t \in CountTakers :
            t[1] = cmd'.event =>
              /\ cmd'.out = UiCommand(t[2], PendingOrOne, t[3])
              /\ mapper'.pending_count = None
       /\ (~IsDigitKey(cmd'.event) /\ ~IsCountTaker(cmd'.event)) =>
            mapper'.pending_count = None]_vars

GlyphsOnVisualPage(page) == Len(Concat(VisualTexts[page + 1]))

PointInRange(point) ==
  /\ point.page < VisualPages
  /\ point.glyph_index <= GlyphsOnVisualPage(point.page)

\* C31: the visual cursor and the anchor and the head of the selection, when
\* present, are on a page of the document and at a glyph index that is at
\* most the glyph count of that page.
VisualPointsInRange ==
  HasActive =>
    /\ IsSome(ActiveDoc.visual_cursor) => PointInRange(Unwrap(ActiveDoc.visual_cursor))
    /\ IsSome(ActiveDoc.selection_state) =>
         /\ PointInRange(Unwrap(ActiveDoc.selection_state).anchor)
         /\ PointInRange(Unwrap(ActiveDoc.selection_state).head)

VisualPointsInRangeWitness ==
  /\ cmd.op = "MoveVisualCursor"
  /\ result = "true"
  /\ IsSome(ActiveDoc.selection_state)
  /\ Unwrap(ActiveDoc.selection_state).anchor = SelectionPoint(0, 4)
  /\ ActiveDoc.visual_cursor = Some(SelectionPoint(1, 0))

IsMovedCursor == cmd'.op = "MoveVisualCursor" /\ result' = "true"

HeadIsCursor ==
  (HasActive /\ IsSome(ActiveDoc.selection_state)) =>
    ActiveDoc.visual_cursor = Some(Unwrap(ActiveDoc.selection_state).head)

\* C32: a MoveVisualCursor that moved leaves a visual cursor, current_page on
\* the cursor's page, the viewport reset to (0, 0) when current_page changed
\* and as it was when not, and the anchor of an active selection as it was;
\* after every step the head of an active selection is the visual cursor.
MotionSyncsCursorPageAndHead ==
  [][/\ HeadIsCursor'
     /\ IsMovedCursor =>
          /\ IsSome(ActiveDoc'.visual_cursor)
          /\ ActiveDoc'.state.current_page = Unwrap(ActiveDoc'.visual_cursor).page
          /\ ActiveDoc'.state.viewport =
               IF ActiveDoc'.state.current_page /= ActiveDoc.state.current_page
               THEN ViewportDefault ELSE ActiveDoc.state.viewport
          /\ IsSome(ActiveDoc'.selection_state) = IsSome(ActiveDoc.selection_state)
          /\ IsSome(ActiveDoc.selection_state) =>
               Unwrap(ActiveDoc'.selection_state).anchor
                 = Unwrap(ActiveDoc.selection_state).anchor]_vars

MotionSyncsCursorPageAndHeadWitness ==
  /\ cmd.op = "MoveVisualCursor"
  /\ result = "true"
  /\ IsSome(ActiveDoc.selection_state)
  /\ Unwrap(ActiveDoc.selection_state).anchor.page = 0
  /\ Unwrap(ActiveDoc.selection_state).head = SelectionPoint(2, 2)
  /\ ActiveDoc.state.current_page = 2
  /\ ActiveDoc.state.scale = 2 * One
  /\ ActiveDoc.state.viewport = ViewportDefault

PointLeq(a, b) ==
  a.page < b.page \/ (a.page = b.page /\ a.glyph_index <= b.glyph_index)

\* The span of a selection: its two points in the order of the document.
OrderedSpan(selection) ==
  IF PointLeq(selection.anchor, selection.head)
  THEN [start |-> selection.anchor, end |-> selection.head]
  ELSE [start |-> selection.head, end |-> selection.anchor]

\* C33: a ClearSelection on an active selection removes it, leaves the visual
\* cursor at the former head and remembers the ordered span, from which a
\* RestoreSelection re-creates a selection of the same span; a ClearSelection
\* without an active selection changes neither the document (the remembered
\* span included) nor the event queue.
ClearRemembersSpan ==
  [][/\ cmd'.op = "ClearSelection" =>
          IF IsSome(ActiveDoc.selection_state)
          THEN /\ result' = "true"
               /\ ActiveDoc'.selection_state = None
               /\ ActiveDoc'.visual_cursor = Some(Unwrap(ActiveDoc.selection_state).head)
               /\ ActiveDoc'.last_selection
                    = Some(OrderedSpan(Unwrap(ActiveDoc.selection_state)))
               /\ OrderedSpan(Unwrap(restore_last_selection(ActiveDoc').doc.selection_state))
                    = OrderedSpan(Unwrap(ActiveDoc.selection_state))
          ELSE /\ result' = "false"
               /\ documents' = documents
               /\ events' = events
     /\ (cmd.op = "ClearSelection" /\ result = "true" /\ cmd'.op = "RestoreSelection") =>
          /\ result' = "true"
          /\ IsSome(ActiveDoc'.selection_state)
          /\ Some(OrderedSpan(Unwrap(ActiveDoc'.selection_state)))
               = ActiveDoc.last_selection]_vars

ClearRemembersSpanWitness ==
  /\ cmd.op = "ClearSelection"
  /\ result = "true"
  /\ IsSome(ActiveDoc.last_selection)
  /\ Unwrap(ActiveDoc.last_selection).start.page < Unwrap(ActiveDoc.last_selection).end.page
  /\ ActiveDoc.visual_cursor = Some(Unwrap(ActiveDoc.last_selection).start)

IsBoundaryStep(motion) ==
  /\ cmd'.op = "MoveVisualCursor"
  /\ cmd'.a = motion
  /\ result' \in {"true", "false"}

\* The same motion once more from the state the step leaves.
Repeated(motion) == move_visual_cursor(ActiveDoc', motion, 1)

VisualLineLens(page) ==
  [k \in 1..Len(VisualTexts[page + 1]) |-> Len(VisualTexts[page + 1][k])]

\* The first glyph of the line of VisualTexts a point is on, a point past the
\* last glyph being on the line of the last glyph.
VisualLineStart(point) ==
  LET lens == VisualLineLens(point.page)
      idx == Min(point.glyph_index, GlyphTotal(lens) - 1)
      line == CHOOSE k \in 1..Len(lens) :
                /\ idx < GlyphTotal(SubSeq(lens, 1, k))
                /\ idx >= GlyphTotal(SubSeq(lens, 1, k - 1))
  IN GlyphTotal(SubSeq(lens, 1, line - 1))

LineStartRepeats ==
  IsBoundaryStep("LineStart") =>
    /\ Repeated("LineStart").val = FALSE
    /\ Repeated("LineStart").doc.visual_cursor = ActiveDoc'.visual_cursor

LineEndRepeats ==
  IsBoundaryStep("LineEnd") =>
    /\ Repeated("LineEnd").val = FALSE
    /\ Repeated("LineEnd").doc.visual_cursor = ActiveDoc'.visual_cursor

LineEndThenStartReturns ==
  (IsBoundaryStep("LineEnd") /\ Len(VisualTexts[MotionStart.page + 1]) > 0) =>
    Repeated("LineStart").doc.visual_cursor
      = Some(SelectionPoint(MotionStart.page, VisualLineStart(MotionStart)))

\* C34: a LineStart (a LineEnd) directly after a LineStart (a LineEnd) motion
\* reports no change and leaves the cursor where it is, and a LineStart after
\* a LineEnd motion puts the cursor on the first glyph of the line the LineEnd
\* started on.
LineBoundariesIdempotent ==
  [][LineStartRepeats /\ LineEndRepeats /\ LineEndThenStartReturns]_vars

IsClose == cmd'.op = "CloseDocument"

\* C35: a successful CloseDocument that closes a document other than the
\* active one leaves the document that was active (by id) active, and a CloseDocument
\* with an index >= the number of documents changes neither the documents,
\* nor the active index, nor the event queue.
CloseOfOtherKeepsActive ==
  [][IsClose =>
       IF cmd'.a >= Len(documents)
       THEN documents' = documents /\ active' = active /\ events' = events
       ELSE (HasActive /\ cmd'.a /= active /\ result' = "ok") =>
              SessionActive' = SessionActive]_vars

\* The events a step appended end with ActiveDocumentChanged of the given id.
AnnouncesActive(id) ==
  /\ Len(events') > Len(events)
  /\ SubSeq(events', 1, Len(events)) = events
  /\ Last(events') = ActiveDocumentChanged(id)

\* C36: whenever a successful open_with, SwitchDocument or CloseDocument
\* leaves another document active than the one that was, the events it
\* appended to the queue end with ActiveDocumentChanged of the document that
\* is active now.
ActiveChangeIsAnnounced ==
  [][(/\ cmd'.op \in {"open_with", "SwitchDocument", "CloseDocument"}
      /\ result' /= "err"
      /\ SessionActive' /= SessionActive
      /\ IsSome(SessionActive')) =>
       AnnouncesActive(Unwrap(SessionActive'))]_vars

\* C37: a CloseDocument whose store.save failed leaves the document in the
\* document list, the active index on a document when it was on one, and
\* the event queue as it was.
FailedSaveLeavesSession ==
  [][(IsClose /\ result' = "err") =>
       /\ documents[cmd'.a + 1].info.id \in DocumentIds'
       /\ HasActive => HasActive'
       /\ events' = events]_vars

\* C38: a NextPage with a count the key mapper produced, the saturated
\* usize::MAX included, does not overflow and sets the current page to
\* min(current_page + count, page_count - 1).
NextPageNeverOverflows ==
  [][(cmd.op = "map_event" /\ cmd'.op = "NextPage") =>
       /\ result' /= "panic"
       /\ CurrentPage' = Min(CurrentPage + cmd'.a, LastPage(ActiveDoc))]_vars

IsReload == cmd'.op = "reload_document" /\ result' = "true"

\* The page reload clamps the current page to.
ReloadClamped ==
  Min(CurrentPage, SaturatingSub(ActiveDoc'.info.page_count, 1))

StacksKept == BackStack' = BackStack /\ ForwardStack' = ForwardStack

\* C39 as stated: a reload leaves a current page that is < the new page count
\* as it was, whether or not a search was active, and records no entry in
\* the jump history.
ReloadOnlyClampsPage ==
  [][IsReload =>
       /\ CurrentPage < ActiveDoc'.info.page_count => CurrentPage' = CurrentPage
       /\ StacksKept]_vars

\* C39: a reload without an active search leaves the current page clamped to
\* the new last page (as it was when it is < the new page count) and both
\* stacks of the jump history as they were; a reload with an active search
\* does the same unless the rebuilt search has a first match at or after the
\* clamped page (or a first match) on another page: then that page is the
\* current page, the clamped position is pushed onto the back-stack (unless
\* it is its top already) and the forward-stack is cleared.
ReloadMovesOnlyToMatch ==
  [][IsReload =>
       LET new == ActiveDoc'
           found == IsSome(new.search_state) /\ Len(SearchOf(new).matches) > 0
           target == SearchOf(new).matches[
                       FirstIndexFrom(SearchOf(new).matches, ReloadClamped) + 1].page
       IN IF IsSome(ActiveDoc.search_state) /\ found /\ target /= ReloadClamped
          THEN /\ CurrentPage' = target
               /\ BackStack' =
                    IF Len(BackStack) > 0 /\ Last(BackStack) = PagePosition(ReloadClamped)
                    THEN BackStack
                    ELSE Append(BackStack, PagePosition(ReloadClamped))
               /\ ForwardStack' = <<>>
          ELSE /\ CurrentPage' = ReloadClamped
               /\ CurrentPage < new.info.page_count => CurrentPage' = CurrentPage
               /\ StacksKept]_vars

\* A reload that moved to a match, and one with a search that stayed.
ReloadMovesOnlyToMatchWitness ==
  /\ cmd.op = "reload_document" /\ result = "true"
  /\ IsSome(ActiveDoc.search_state)
  /\ Len(SearchOf(ActiveDoc).matches) > 0
  /\ CurrentPage = 2
  /\ BackStack = <<PagePosition(0)>>
  /\ trace.step = 2

\* C40: the page-text cache of a document holds only text its current
\* backend extracted, also after a reload while a search context taken
\* before the reload builds its matches.
TextCacheIsOfBackend ==
  HasActive =>
    \A e \in ActiveDoc.text_cache :
      /\ e.page < ActiveDoc.backend.page_count
      /\ page_text(ActiveDoc.backend, e.page) = Ok(e.text)
====
